---- MODULE Spec2Model ----
(***************************************************************************)
(* Interclub organizer (src/flask_app.py, src/auth.py, src/db.py).         *)
(*                                                                         *)
(* The relational store is the state.  Tables whose rows carry an          *)
(* auto-increment id that other tables reference (users, teams, matches,   *)
(* match_dates) are sets of records; the other tables are bags of rows,    *)
(* because every db_write is a plain INSERT/UPDATE/DELETE committed on its *)
(* own (src/db.py:29-37) and nothing in the source rules out equal rows.   *)
(* Text values are sequences of one-character strings so that strip(),     *)
(* lower(), startswith() and replace("T"," ") are computed, not assumed.   *)
(***************************************************************************)
EXTENDS Integers, Sequences, FiniteSets, Bags, TLC

VARIABLES
    users,        \* table users: [id, email, license, club, role]
    licenseMap,   \* table license_club_map, in the order db_read returns it
    teams,        \* table teams: [id, club, name, captain]
    membership,   \* table team_membership (bag): [user, team, approved, approved_at]
    matches,      \* table matches: [id, team, opponent, location, status, final_date]
    matchDates,   \* table match_dates: [id, match, proposed_datetime]
    availability, \* table availability (bag): [match_date, user]
    lineup,       \* table lineup (bag): [match, user, confirmed]
    tasks,        \* table match_tasks (bag): [match, task, user]
    messages,     \* table match_messages (bag): [match, user, content]
    nextUserId,   \* AUTO_INCREMENT counters of the id-carrying tables
    nextTeamId,
    nextMatchId,
    nextDateId,
    mail,         \* notifications delivered by the last request: [to, subject]
    last,         \* the last request and its response
    req           \* in-flight match_task requests, one per worker

vars == <<users, licenseMap, teams, membership, matches, matchDates, availability,
          lineup, tasks, messages, nextUserId, nextTeamId, nextMatchId, nextDateId,
          mail, last, req>>

store == <<users, licenseMap, teams, membership, matches, matchDates, availability,
           lineup, tasks, messages, nextUserId, nextTeamId, nextMatchId, nextDateId>>

-----------------------------------------------------------------------------
(* Bounds of the model *)

MaxTeams == 2
MaxMatches == 2
MaxDates == 2
MaxRows == 2
MaxReg == 1
MaxLicLen == 2
MaxMapLen == 2

-----------------------------------------------------------------------------
(* Values *)

\* SQL NULL of a DATETIME column (and the empty form field "").
NULL == <<>>

\* The value NOW() stores: some non-null timestamp.
NOW == <<"n", "o", "w">>

\* `None` of _club_from_license; club ids are AUTO_INCREMENT values >= 1.
NoClub == 0

\* An id no AUTO_INCREMENT column ever issues.
NoId == 0

\* The number of proposal_dates fields the edit form carries.
MaxProposals == 3

-----------------------------------------------------------------------------
(* Text: str.strip(), str.lower(), str.startswith(), str.replace("T", " ") *)

Reverse(s) == IF s = <<>> THEN <<>> ELSE [i \in 1..Len(s) |-> s[Len(s) + 1 - i]]

RECURSIVE LStrip(_)
LStrip(s) == IF s # <<>> /\ Head(s) = " " THEN LStrip(Tail(s)) ELSE s

Strip(s) == Reverse(LStrip(Reverse(LStrip(s))))

LowerChar(c) == CASE c = "N" -> "n" [] c = "P" -> "p" [] OTHER -> c

Lower(s) == IF s = <<>> THEN <<>> ELSE [i \in 1..Len(s) |-> LowerChar(s[i])]

StartsWith(s, p) == Len(p) <= Len(s) /\ SubSeq(s, 1, Len(p)) = p

ReplaceT(d) == IF d = <<>> THEN <<>> ELSE [i \in 1..Len(d) |-> IF d[i] = "T" THEN " " ELSE d[i]]

RECURSIVE SeqsUpTo(_, _)
SeqsUpTo(S, n) ==
    IF n = 0 THEN {<<>>}
    ELSE LET shorter == SeqsUpTo(S, n - 1)
         IN  shorter \cup {Append(s, x) : s \in shorter, x \in S}

-----------------------------------------------------------------------------
(* Bags of rows: INSERT, DELETE ... WHERE, UPDATE ... WHERE *)

RECURSIVE SumOver(_, _)
SumOver(b, S) ==
    IF S = {} THEN 0
    ELSE LET x == CHOOSE y \in S : TRUE IN b[x] + SumOver(b, S \ {x})

Insert(b, row) == b (+) SetToBag({row})

DeleteWhere(b, P(_)) == [r \in {x \in DOMAIN b : ~P(x)} |-> b[r]]

UpdateWhere(b, P(_), F(_)) ==
    LET G(x) == IF P(x) THEN F(x) ELSE x
    IN  [y \in {G(x) : x \in DOMAIN b} |-> SumOver(b, {x \in DOMAIN b : G(x) = y})]

Rows(b) == DOMAIN b

Count(b, P(_)) == SumOver(b, {x \in DOMAIN b : P(x)})

RECURSIVE InsertAll(_, _)
InsertAll(b, rows) ==
    IF rows = <<>> THEN b ELSE InsertAll(Insert(b, Head(rows)), Tail(rows))

\* The elements of a set of integers in the order a Python set of small
\* non-negative ints iterates them (ascending).
RECURSIVE SetToSeq(_)
SetToSeq(S) ==
    IF S = {} THEN <<>>
    ELSE LET lo == CHOOSE x \in S : \A y \in S : x <= y
         IN  <<lo>> \o SetToSeq(S \ {lo})

Max(S) == CHOOSE x \in S : \A y \in S : y <= x

-----------------------------------------------------------------------------
(* The response of a request *)

\* op: the route; outcome: the response body or the flashed message; actor: the
\* logged-in user; id: the team or match addressed (the one created, for a
\* creation); n: the rows a cascade or a reschedule wrote or removed; was: the
\* status a reschedule or a confirmation found; sel, dates: the ids and the
\* non-empty dates a successful request carried.
Response(op, outcome, actor, id, n, was, sel, dates, text) ==
    [op |-> op, outcome |-> outcome, actor |-> actor, id |-> id, n |-> n, was |-> was,
     sel |-> sel, dates |-> dates, text |-> text]

\* send_email: nothing when SMTP is not configured, and an exception of
\* mail.send is swallowed; only "deliver" hands the message over.
MailModes == {"unconfigured", "deliver", "exception"}

RaisesOnException(mode) == mode = "exception"

\* Whether send_email raises into its caller: the try/except around
\* mail.send passes on every exception.
Raises(mode) == FALSE

\* What the caller goes on to answer after send_email.
AfterEmail(mode, outcome) == IF Raises(mode) THEN "Internal Server Error" ELSE outcome

SendEmail(mode, recipients, subject) ==
    IF mode = "deliver" THEN {[to |-> r, subject |-> subject] : r \in recipients} ELSE {}

-----------------------------------------------------------------------------
(* Seed data and the initial store *)

Clubs == {1, 2}

\* Three registered users of club 1, one per role the handlers test for.
Captain == [id |-> 1, email |-> <<"c">>, license |-> <<"A", "A">>, club |-> 1, role |-> "captain"]
Player == [id |-> 2, email |-> <<"p">>, license |-> <<"B">>, club |-> 1, role |-> "player"]
Admin == [id |-> 3, email |-> <<"a">>, license |-> <<"B", "B">>, club |-> 1, role |-> "club_admin"]

SeedUsers == {Captain, Player, Admin}

UserIds == {u.id : u \in SeedUsers}

Prefixes == {<<"A">>, <<"A", "B">>}

Mappings == [license_prefix : Prefixes, club_id : Clubs]

DefaultMap == <<[license_prefix |-> <<"A">>, club_id |-> 1], [license_prefix |-> <<"B">>, club_id |-> 1]>>

Idle == [pc |-> "idle", actor |-> NoId, match |-> NoId, task |-> "", outcome |-> ""]

Workers == {1, 2}

InitStore ==
    /\ users = SeedUsers
    /\ teams = {}
    /\ membership = EmptyBag
    /\ matches = {}
    /\ matchDates = {}
    /\ availability = EmptyBag
    /\ lineup = EmptyBag
    /\ tasks = EmptyBag
    /\ messages = EmptyBag
    /\ nextUserId = 4
    /\ nextTeamId = 1
    /\ nextMatchId = 1
    /\ nextDateId = 1
    /\ mail = {}
    /\ last = Response("none", "", NoId, NoId,
                    0, "", {}, <<>>, <<>>)
    /\ req = [w \in Workers |-> Idle]

Init == InitStore /\ licenseMap = DefaultMap

InitReg == InitStore /\ licenseMap \in SeqsUpTo(Mappings, MaxMapLen)

-----------------------------------------------------------------------------
(* src/auth.py: license-prefix club resolution and registration *)

RECURSIVE BestMappingLast(_, _, _, _)
BestMappingLast(map, lic, i, best) ==
    IF i > Len(map) THEN best
    ELSE LET pref == map[i].license_prefix
         IN  BestMappingLast(map, lic, i + 1,
                 IF StartsWith(lic, pref) /\ (best = 0 \/ Len(pref) >= Len(map[best].license_prefix))
                 THEN i ELSE best)

\* The loop of _club_from_license from mapping i on; best is the index of the
\* best mapping so far, 0 for None.
RECURSIVE BestMapping(_, _, _, _)
BestMapping(map, lic, i, best) ==
    IF i > Len(map) THEN best
    ELSE LET pref == map[i].license_prefix
         IN  BestMapping(map, lic, i + 1,
                 IF StartsWith(lic, pref) /\ (best = 0 \/ Len(pref) > Len(map[best].license_prefix))
                 THEN i ELSE best)

ClubFromLicense(map, lic) ==
    LET best == BestMapping(map, lic, 1, 0)
    IN  IF best # 0 THEN map[best].club_id ELSE NoClub

\* Licenses as typed, and one typed with blanks around it.
LicenseInputs == SeqsUpTo({"A", "B"}, MaxLicLen) \cup {<<" ", "A", " ">>}

EmailInputs == {<<"n">>, <<" ", "N">>, <<"P", " ">>}

RegisterUser(email_raw, license_raw) ==
    LET email == Lower(Strip(email_raw))
        license_number == Strip(license_raw)
        exists == \E u \in users : u.email = email \/ u.license = license_number
        club_id == ClubFromLicense(licenseMap, license_number)
    IN  /\ nextUserId < 4 + MaxReg
        /\ IF exists
           THEN /\ last' = Response("register", "Email oder Lizenznummer existiert bereits.", NoId, NoId,
                    0, "", {}, <<email_raw>>, license_raw)
                /\ UNCHANGED <<users, nextUserId>>
           ELSE IF club_id = NoClub
           THEN /\ last' = Response("register", "Lizenznummer nicht bekannt", NoId, NoId,
                    0, "", {}, <<email_raw>>, license_raw)
                /\ UNCHANGED <<users, nextUserId>>
           ELSE /\ users' = users \cup {[id |-> nextUserId, email |-> email, license |-> license_number,
                                         club |-> club_id, role |-> "player"]}
                /\ nextUserId' = nextUserId + 1
                /\ last' = Response("register", "Registrierung erfolgreich.", NoId, nextUserId,
                    0, "", {}, <<email_raw>>, license_raw)
        /\ mail' = {}
        /\ UNCHANGED <<licenseMap, teams, membership, matches, matchDates, availability, lineup,
                       tasks, messages, nextTeamId, nextMatchId, nextDateId, req>>

NextReg == \E e \in EmailInputs, l \in LicenseInputs : RegisterUser(e, l)

SpecReg == InitReg /\ [][NextReg]_vars

-----------------------------------------------------------------------------
(* src/flask_app.py: the gates *)

TeamRow(team_id) == CHOOSE t \in teams : t.id = team_id

\* matches m JOIN teams t ON t.id = m.team_id WHERE m.id = match_id
MatchJoinTeam(match_id) == {m \in matches : m.id = match_id /\ \E t \in teams : t.id = m.team}

IsCaptainOrAdminAnyone(a, captain_id) == TRUE

IsCaptainOrAdmin(a, captain_id) == captain_id = a.id \/ a.role = "club_admin"

RequireCaptain(a, team_id) ==
    /\ \E t \in teams : t.id = team_id
    /\ IsCaptainOrAdmin(a, TeamRow(team_id).captain)

RequireMatchCaptain(a, match_id) ==
    \E m \in MatchJoinTeam(match_id) : IsCaptainOrAdmin(a, TeamRow(m.team).captain)

IsMemberOrAdmin(a, team_id) ==
    \/ \E r \in Rows(membership) : r.team = team_id /\ r.user = a.id /\ r.approved = 1
    \/ a.role = "club_admin"

RequireMatchMember(a, match_id) ==
    \E m \in MatchJoinTeam(match_id) : IsMemberOrAdmin(a, m.team)

-----------------------------------------------------------------------------
(* src/flask_app.py: teams and membership *)

SafeGetTeamIdOldest(ts, club_id, captain_id, name) ==
    LET ids == {t.id : t \in {x \in ts : x.club = club_id /\ x.captain = captain_id /\ x.name = name}}
    IN  CHOOSE i \in ids : \A j \in ids : i <= j

SafeGetTeamId(ts, club_id, captain_id, name) ==
    Max({t.id : t \in {x \in ts : x.club = club_id /\ x.captain = captain_id /\ x.name = name}})

TeamCreateRolesAll == {"captain", "club_admin", "player"}

TeamCreateRoles == {"captain", "club_admin"}

TeamCreateRoutePost(a, name_raw) ==
    LET name == Strip(name_raw)
        teams1 == teams \cup {[id |-> nextTeamId, club |-> a.club, name |-> name, captain |-> a.id]}
        team_id == SafeGetTeamId(teams1, a.club, a.id, name)
    IN  /\ IF a.role \notin TeamCreateRoles
           THEN /\ last' = Response("team_create", "Nur Captains", a.id, NoId,
                    0, "", {}, <<>>, name_raw)
                /\ UNCHANGED <<teams, membership, nextTeamId>>
           ELSE IF name = <<>>
           THEN /\ last' = Response("team_create", "Teamname fehlt.", a.id, NoId,
                    0, "", {}, <<>>, name_raw)
                /\ UNCHANGED <<teams, membership, nextTeamId>>
           ELSE /\ nextTeamId <= MaxTeams
                /\ teams' = teams1
                /\ nextTeamId' = nextTeamId + 1
                /\ membership' = Insert(membership, [user |-> a.id, team |-> team_id,
                                                     approved |-> 1, approved_at |-> NOW])
                /\ last' = Response("team_create", "Team erstellt.", a.id, team_id,
                    0, "", {}, <<>>, name_raw)
        /\ mail' = {}
        /\ UNCHANGED <<users, licenseMap, matches, matchDates, availability, lineup, tasks,
                       messages, nextUserId, nextMatchId, nextDateId, req>>

TeamJoin(a, team_id) ==
    LET exists == \E r \in Rows(membership) : r.user = a.id /\ r.team = team_id
        captain == {u \in users : \E t \in teams : t.id = team_id /\ u.id = t.captain}
    IN  /\ IF exists
           THEN /\ last' = Response("team_join", "Du hast bereits eine Anfrage / Mitgliedschaft.", a.id, team_id,
                    0, "", {}, <<>>, <<>>)
                /\ mail' = {}
                /\ UNCHANGED membership
           ELSE /\ membership' = Insert(membership, [user |-> a.id, team |-> team_id,
                                                     approved |-> 0, approved_at |-> NULL])
                /\ \E mode \in MailModes :
                       /\ mail' = SendEmail(mode, {u.id : u \in captain}, "Neue Team-Anfrage")
                       /\ last' = Response("team_join", AfterEmail(mode, "Beitrittsanfrage gesendet."),
                                           a.id, team_id, 0, "", {}, <<>>, <<>>)
        /\ UNCHANGED <<users, licenseMap, teams, matches, matchDates, availability, lineup, tasks,
                       messages, nextUserId, nextTeamId, nextMatchId, nextDateId, req>>

TeamRequests(a, team_id, user_id, action) ==
    LET target(r) == r.user = user_id /\ r.team = team_id
        approve(r) == [r EXCEPT !.approved = 1, !.approved_at = NOW]
    IN  /\ IF ~RequireCaptain(a, team_id)
           THEN /\ last' = Response("team_requests", "Unauthorized", a.id, team_id,
                    0, "", {}, <<>>, <<>>)
                /\ mail' = {}
                /\ UNCHANGED membership
           ELSE IF action = "approve"
           THEN /\ membership' = UpdateWhere(membership, target, approve)
                /\ \E mode \in MailModes :
                       /\ mail' = SendEmail(mode, {u.id : u \in {x \in users : x.id = user_id}},
                                            "Team-Anfrage bestaetigt")
                       /\ last' = Response("team_requests", AfterEmail(mode, "Anfrage approved."),
                                           a.id, team_id, 0, "", {user_id}, <<>>, <<>>)
           ELSE /\ membership' = DeleteWhere(membership, target)
                /\ mail' = {}
                /\ last' = Response("team_requests", "Anfrage denied.", a.id, team_id,
                    0, "", {user_id}, <<>>, <<>>)
        /\ UNCHANGED <<users, licenseMap, teams, matches, matchDates, availability, lineup, tasks,
                       messages, nextUserId, nextTeamId, nextMatchId, nextDateId, req>>

-----------------------------------------------------------------------------
(* src/flask_app.py: the manual cascade *)

\* availability a JOIN match_dates md ON md.id = a.match_date_id WHERE md.match_id = match_id
AvailabilityOfNoMatch(md, match_id, r) == FALSE

AvailabilityOfMatch(md, match_id, r) == \E d \in md : d.id = r.match_date /\ d.match = match_id

DeleteMatchRowsDatesFirst(db, mid) ==
    LET ofMatch(r) == r.match = mid
        s1 == [db EXCEPT !.messages = DeleteWhere(db.messages, ofMatch)]
        s2 == [s1 EXCEPT !.tasks = DeleteWhere(s1.tasks, ofMatch)]
        s3 == [s2 EXCEPT !.lineup = DeleteWhere(s2.lineup, ofMatch)]
        s4 == [s3 EXCEPT !.matchDates = {d \in s3.matchDates : d.match # mid}]
        joined(r) == AvailabilityOfMatch(s4.matchDates, mid, r)
        s5 == [s4 EXCEPT !.availability = DeleteWhere(s4.availability, joined)]
    IN  [s5 EXCEPT !.matches = {m \in s5.matches : m.id # mid}]

\* The six DELETE statements for one match, in the order of the source.
DeleteMatchRows(db, mid) ==
    LET ofMatch(r) == r.match = mid
        joined(r) == AvailabilityOfMatch(db.matchDates, mid, r)
        s1 == [db EXCEPT !.messages = DeleteWhere(db.messages, ofMatch)]
        s2 == [s1 EXCEPT !.tasks = DeleteWhere(s1.tasks, ofMatch)]
        s3 == [s2 EXCEPT !.lineup = DeleteWhere(s2.lineup, ofMatch)]
        s4 == [s3 EXCEPT !.availability = DeleteWhere(s3.availability, joined)]
        s5 == [s4 EXCEPT !.matchDates = {d \in s4.matchDates : d.match # mid}]
    IN  [s5 EXCEPT !.matches = {m \in s5.matches : m.id # mid}]

RECURSIVE DeleteMatchesRows(_, _)
DeleteMatchesRows(db, mids) ==
    IF mids = <<>> THEN db ELSE DeleteMatchesRows(DeleteMatchRows(db, Head(mids)), Tail(mids))

MatchTables ==
    [messages |-> messages, tasks |-> tasks, lineup |-> lineup, availability |-> availability,
     matchDates |-> matchDates, matches |-> matches]

RowCount(db) ==
    BagCardinality(db.messages) + BagCardinality(db.tasks) + BagCardinality(db.lineup)
        + BagCardinality(db.availability) + Cardinality(db.matchDates) + Cardinality(db.matches)

TeamDelete(a, team_id) ==
    LET match_ids == SetToSeq({m.id : m \in {x \in matches : x.team = team_id}})
        db == DeleteMatchesRows(MatchTables, match_ids)
        ofTeam(r) == r.team = team_id
    IN  /\ IF ~RequireCaptain(a, team_id)
           THEN /\ last' = Response("team_delete", "Unauthorized", a.id, team_id,
                    0, "", {}, <<>>, <<>>)
                /\ UNCHANGED <<teams, membership, matches, matchDates, availability, lineup,
                               tasks, messages>>
           ELSE /\ messages' = db.messages
                /\ tasks' = db.tasks
                /\ lineup' = db.lineup
                /\ availability' = db.availability
                /\ matchDates' = db.matchDates
                /\ matches' = db.matches
                /\ membership' = DeleteWhere(membership, ofTeam)
                /\ teams' = {t \in teams : t.id # team_id}
                /\ last' = Response("team_delete", "Team geloescht.", a.id, team_id,
                    RowCount(MatchTables) - RowCount(db), "", {}, <<>>, <<>>)
        /\ mail' = {}
        /\ UNCHANGED <<users, licenseMap, nextUserId, nextTeamId, nextMatchId, nextDateId, req>>

MatchDelete(a, match_id) ==
    LET db == DeleteMatchRows(MatchTables, match_id)
    IN  /\ IF ~RequireMatchCaptain(a, match_id)
           THEN /\ last' = Response("match_delete", "Unauthorized", a.id, match_id,
                    0, "", {}, <<>>, <<>>)
                /\ UNCHANGED <<matches, matchDates, availability, lineup, tasks, messages>>
           ELSE /\ messages' = db.messages
                /\ tasks' = db.tasks
                /\ lineup' = db.lineup
                /\ availability' = db.availability
                /\ matchDates' = db.matchDates
                /\ matches' = db.matches
                /\ last' = Response("match_delete", "Match geloescht.", a.id, match_id,
                    RowCount(MatchTables) - RowCount(db), "", {}, <<>>, <<>>)
        /\ mail' = {}
        /\ UNCHANGED <<users, licenseMap, teams, membership, nextUserId, nextTeamId, nextMatchId,
                       nextDateId, req>>

-----------------------------------------------------------------------------
(* src/flask_app.py: match creation, edit, availability, confirmation *)

SafeGetMatchId(ms, team_id, opponent, location) ==
    Max({m.id : m \in {x \in ms : x.team = team_id /\ x.opponent = opponent /\ x.location = location}})

\* [d for d in dates if d]
NonEmpty(dates) == SelectSeq(dates, LAMBDA d : d # <<>>)

\* One INSERT INTO match_dates per proposed date, ids taken from the counter.
RECURSIVE InsertDates(_, _, _, _)
InsertDates(md, next, match_id, proposed) ==
    IF proposed = <<>> THEN [matchDates |-> md, nextDateId |-> next]
    ELSE InsertDates(md \cup {[id |-> next, match |-> match_id,
                               proposed_datetime |-> ReplaceT(Head(proposed))]},
                     next + 1, match_id, Tail(proposed))

\* UPDATE matches SET status='planned', final_date=NULL
RevertStatusOnly(m) == [m EXCEPT !.status = "planned"]

RevertToPlanned(m) == [m EXCEPT !.status = "planned", !.final_date = NULL]

\* UPDATE matches SET status='confirmed', final_date=<the date's proposed_datetime>
ConfirmStatusOnly(m, d) == [m EXCEPT !.status = "confirmed"]

ConfirmMatch(m, d) == [m EXCEPT !.status = "confirmed", !.final_date = d.proposed_datetime]

ApprovedMembers(team_id) ==
    {u.id : u \in {x \in users : \E r \in Rows(membership) :
                       r.team = team_id /\ r.user = x.id /\ r.approved = 1}}

MatchCreate(a, team_id, opponent_raw, location_raw, dates) ==
    LET opponent == Strip(opponent_raw)
        location == Strip(location_raw)
        matches1 == matches \cup {[id |-> nextMatchId, team |-> team_id, opponent |-> opponent,
                                   location |-> location, status |-> "planned", final_date |-> NULL]}
        match_id == SafeGetMatchId(matches1, team_id, opponent, location)
        ins == InsertDates(matchDates, nextDateId, match_id, NonEmpty(dates))
    IN  /\ IF ~RequireCaptain(a, team_id)
           THEN /\ last' = Response("match_create", "Unauthorized", a.id, team_id,
                    0, "", {}, <<>>, <<>>)
                /\ mail' = {}
                /\ UNCHANGED <<matches, matchDates, nextMatchId, nextDateId>>
           ELSE /\ nextMatchId <= MaxMatches
                /\ ins.nextDateId <= MaxDates + 1
                /\ matches' = matches1
                /\ nextMatchId' = nextMatchId + 1
                /\ matchDates' = ins.matchDates
                /\ nextDateId' = ins.nextDateId
                /\ \E mode \in MailModes :
                       /\ mail' = SendEmail(mode, ApprovedMembers(team_id), "Neues Match geplant")
                       /\ last' = Response("match_create", AfterEmail(mode, "Match erstellt."),
                                           a.id, team_id, match_id, "", {}, NonEmpty(dates), <<>>)
        /\ UNCHANGED <<users, licenseMap, teams, membership, availability, lineup, tasks,
                       messages, nextUserId, nextTeamId, req>>

MatchEditPost(a, match_id, opponent_raw, location_raw, dates) ==
    LET opponent == Strip(opponent_raw)
        location == Strip(location_raw)
        proposed == NonEmpty(dates)
        edited == {IF m.id = match_id THEN [m EXCEPT !.opponent = opponent, !.location = location]
                   ELSE m : m \in matches}
        joined(r) == AvailabilityOfMatch(matchDates, match_id, r)
        kept == {d \in matchDates : d.match # match_id}
        ins == InsertDates(kept, nextDateId, match_id, proposed)
        was == IF \E m \in matches : m.id = match_id
               THEN (CHOOSE m \in matches : m.id = match_id).status ELSE ""
    IN  /\ IF ~RequireMatchCaptain(a, match_id)
           THEN /\ last' = Response("match_edit", "Unauthorized", a.id, match_id,
                    0, "", {}, <<>>, <<>>)
                /\ UNCHANGED <<matches, matchDates, availability, nextDateId>>
           ELSE IF proposed = <<>>
           THEN /\ matches' = edited
                /\ last' = Response("match_edit", "Match gespeichert.", a.id, match_id,
                    0, "", {}, <<>>, <<>>)
                /\ UNCHANGED <<matchDates, availability, nextDateId>>
           ELSE /\ ins.nextDateId <= MaxDates + 1
                /\ availability' = DeleteWhere(availability, joined)
                /\ matchDates' = ins.matchDates
                /\ nextDateId' = ins.nextDateId
                /\ matches' = {IF m.id = match_id
                               THEN RevertToPlanned(m)
                               ELSE m : m \in edited}
                /\ last' = Response("match_edit", "Match gespeichert.", a.id, match_id,
                    Len(proposed) + Count(availability, joined), was, {}, proposed, <<>>)
        /\ mail' = {}
        /\ UNCHANGED <<users, licenseMap, teams, membership, lineup, tasks, messages,
                       nextUserId, nextTeamId, nextMatchId, req>>

\* The rows match_availability leaves: the actor's rows joined to the match
\* deleted, then one row per selected id.
AvailabilityAfter(av, md, user_id, match_id, selected) ==
    LET mine(r) == AvailabilityOfMatch(md, match_id, r) /\ r.user = user_id
        rows == [i \in 1..Cardinality(selected) |->
                     [match_date |-> SetToSeq(selected)[i], user |-> user_id]]
    IN  InsertAll(DeleteWhere(av, mine), rows)

MatchAvailability(a, match_id, selected) ==
    /\ IF ~RequireMatchMember(a, match_id)
       THEN /\ last' = Response("match_availability", "Unauthorized", a.id, match_id,
                    0, "", {}, <<>>, <<>>)
            /\ UNCHANGED availability
       ELSE /\ availability' = AvailabilityAfter(availability, matchDates, a.id, match_id, selected)
            /\ BagCardinality(availability') <= MaxRows
            /\ last' = Response("match_availability", "Verfuegbarkeit gespeichert.", a.id, match_id,
                    0, "", selected, <<>>, <<>>)
    /\ mail' = {}
    /\ UNCHANGED <<users, licenseMap, teams, membership, matches, matchDates, lineup, tasks,
                   messages, nextUserId, nextTeamId, nextMatchId, nextDateId, req>>

DateById(md, date_id, match_id) == {x \in md : x.id = date_id}

\* SELECT proposed_datetime FROM match_dates WHERE id=%s AND match_id=%s
DateOfMatch(md, date_id, match_id) == {x \in md : x.id = date_id /\ x.match = match_id}

MatchConfirmDate(a, match_id, date_id) ==
    LET match == MatchJoinTeam(match_id)
        d == DateOfMatch(matchDates, date_id, match_id)
        was == IF \E m \in matches : m.id = match_id
               THEN (CHOOSE m \in matches : m.id = match_id).status ELSE ""
    IN  /\ IF match = {}
           THEN /\ last' = Response("match_confirm_date", "Not found", a.id, match_id,
                    0, "", {}, <<>>, <<>>)
                /\ UNCHANGED matches
           ELSE IF ~(\E m \in match : IsCaptainOrAdmin(a, TeamRow(m.team).captain))
           THEN /\ last' = Response("match_confirm_date", "Unauthorized", a.id, match_id,
                    0, "", {}, <<>>, <<>>)
                /\ UNCHANGED matches
           ELSE IF d = {}
           THEN /\ last' = Response("match_confirm_date", "Invalid date", a.id, match_id,
                    0, "", {date_id}, <<>>, <<>>)
                /\ UNCHANGED matches
           ELSE /\ matches' = {IF m.id = match_id
                               THEN ConfirmMatch(m, CHOOSE x \in d : TRUE)
                               ELSE m : m \in matches}
                /\ last' = Response("match_confirm_date", "Datum bestaetigt.", a.id, match_id,
                    0, was, {date_id}, <<>>, <<>>)
        /\ mail' = {}
        /\ UNCHANGED <<users, licenseMap, teams, membership, matchDates, availability, lineup,
                       tasks, messages, nextUserId, nextTeamId, nextMatchId, nextDateId, req>>

-----------------------------------------------------------------------------
(* src/flask_app.py: lineup, logistics tasks, messages *)

LineupRows(match_id, selected) ==
    [i \in 1..Cardinality(selected) |->
         [match |-> match_id, user |-> SetToSeq(selected)[i], confirmed |-> 0]]

LineupAfterKeepOld(lu, match_id, selected) ==
    LET picked(r) == r.match = match_id /\ r.user \in selected /\ r.confirmed = 0
    IN  InsertAll(DeleteWhere(lu, picked), LineupRows(match_id, selected))

\* DELETE FROM lineup WHERE match_id, then one INSERT per selected id.
LineupAfter(lu, match_id, selected) ==
    LET ofMatch(r) == r.match = match_id
    IN  InsertAll(DeleteWhere(lu, ofMatch), LineupRows(match_id, selected))

MatchSetLineup(a, match_id, selected) ==
    LET match == MatchJoinTeam(match_id)
    IN  /\ IF match = {}
           THEN /\ last' = Response("match_set_lineup", "Not found", a.id, match_id,
                    0, "", {}, <<>>, <<>>)
                /\ UNCHANGED lineup
           ELSE IF ~(\E m \in match : IsCaptainOrAdmin(a, TeamRow(m.team).captain))
           THEN /\ last' = Response("match_set_lineup", "Unauthorized", a.id, match_id,
                    0, "", {}, <<>>, <<>>)
                /\ UNCHANGED lineup
           ELSE /\ lineup' = LineupAfter(lineup, match_id, selected)
                /\ last' = Response("match_set_lineup", "Lineup gespeichert.", a.id, match_id,
                    0, "", selected, <<>>, <<>>)
        /\ mail' = {}
        /\ UNCHANGED <<users, licenseMap, teams, membership, matches, matchDates, availability,
                       tasks, messages, nextUserId, nextTeamId, nextMatchId, nextDateId, req>>

LineupEntryOfMatch(r, match_id, user_id) == r.match = match_id

\* WHERE match_id=%s AND user_id=%s
LineupEntryOf(r, match_id, user_id) == r.match = match_id /\ r.user = user_id

MatchConfirmLineup(a, match_id, response) ==
    LET mine(r) == LineupEntryOf(r, match_id, a.id)
        confirm(r) == [r EXCEPT !.confirmed = 1]
    IN  /\ IF Count(lineup, mine) = 0
           THEN /\ last' = Response("match_confirm_lineup", "Unauthorized", a.id, match_id,
                    0, "", {}, <<>>, <<>>)
                /\ UNCHANGED lineup
           ELSE IF response = "yes"
           THEN /\ lineup' = UpdateWhere(lineup, mine, confirm)
                /\ last' = Response("match_confirm_lineup", "Teilnahme bestaetigt.", a.id, match_id,
                    0, "", {}, <<>>, <<>>)
           ELSE /\ lineup' = DeleteWhere(lineup, mine)
                /\ last' = Response("match_confirm_lineup", "Du kannst nicht spielen.", a.id, match_id,
                    0, "", {}, <<>>, <<>>)
        /\ mail' = {}
        /\ UNCHANGED <<users, licenseMap, teams, membership, matches, matchDates, availability,
                       tasks, messages, nextUserId, nextTeamId, nextMatchId, nextDateId, req>>

\* tasks = ["Balls", "Drinks", "Transport"], the list match_detail offers.
TaskNames == {"Balls", "Drinks", "Transport"}

TaskClaimedInAnotherMatch(match_id, task) ==
    \E r \in Rows(tasks) : r.match # match_id /\ r.task = task

TaskClaimed(match_id, task) == \E r \in Rows(tasks) : r.match = match_id /\ r.task = task

MatchTask(a, match_id, task) ==
    /\ IF ~RequireMatchMember(a, match_id)
       THEN /\ last' = Response("match_task", "Unauthorized", a.id, match_id,
                    0, "", {}, <<>>, <<>>)
            /\ UNCHANGED tasks
       ELSE IF TaskClaimed(match_id, task)
       THEN /\ last' = Response("match_task", "Task ist bereits vergeben.", a.id, match_id,
                    0, "", {}, <<>>, <<>>)
            /\ UNCHANGED tasks
       ELSE /\ tasks' = Insert(tasks, [match |-> match_id, task |-> task, user |-> a.id])
            /\ last' = Response("match_task", "Du uebernimmst", a.id, match_id,
                    0, "", {}, <<>>, <<>>)
    /\ mail' = {}
    /\ UNCHANGED <<users, licenseMap, teams, membership, matches, matchDates, availability,
                   lineup, messages, nextUserId, nextTeamId, nextMatchId, nextDateId, req>>

MatchMessage(a, match_id, content_raw) ==
    LET content == Strip(content_raw)
    IN  /\ IF ~RequireMatchMember(a, match_id)
           THEN /\ last' = Response("match_message", "Unauthorized", a.id, match_id,
                    0, "", {}, <<>>, content_raw)
                /\ UNCHANGED messages
           ELSE IF content = <<>>
           THEN /\ last' = Response("match_message", "Nachricht leer.", a.id, match_id,
                    0, "", {}, <<>>, content_raw)
                /\ UNCHANGED messages
           ELSE /\ BagCardinality(messages) < MaxRows
                /\ messages' = Insert(messages, [match |-> match_id, user |-> a.id,
                                                 content |-> content])
                /\ last' = Response("match_message", "Nachricht gesendet.", a.id, match_id,
                    0, "", {}, <<>>, content_raw)
        /\ mail' = {}
        /\ UNCHANGED <<users, licenseMap, teams, membership, matches, matchDates, availability,
                       lineup, tasks, nextUserId, nextTeamId, nextMatchId, nextDateId, req>>

-----------------------------------------------------------------------------
(* match_task as the steps of one request: the gate, the SELECT, the INSERT. *)
(* Each db_read and db_write is its own committed statement, so requests of  *)
(* two workers interleave between them.                                      *)

TaskStart(w, a, match_id, task) ==
    /\ req[w].pc = "idle"
    /\ req' = [req EXCEPT ![w] = [pc |-> "gate", actor |-> a.id, match |-> match_id,
                                  task |-> task, outcome |-> ""]]
    /\ UNCHANGED <<store, mail, last>>

TaskGate(w) ==
    /\ req[w].pc = "gate"
    /\ LET a == CHOOSE u \in users : u.id = req[w].actor
       IN  req' = [req EXCEPT ![w] =
                       IF RequireMatchMember(a, req[w].match)
                       THEN [@ EXCEPT !.pc = "select"]
                       ELSE [@ EXCEPT !.pc = "done", !.outcome = "Unauthorized"]]
    /\ UNCHANGED <<store, mail, last>>

TaskSelect(w) ==
    /\ req[w].pc = "select"
    /\ req' = [req EXCEPT ![w] =
                   IF TaskClaimed(req[w].match, req[w].task)
                   THEN [@ EXCEPT !.pc = "done", !.outcome = "Task ist bereits vergeben."]
                   ELSE [@ EXCEPT !.pc = "insert"]]
    /\ UNCHANGED <<store, mail, last>>

TaskInsert(w) ==
    /\ req[w].pc = "insert"
    /\ tasks' = Insert(tasks, [match |-> req[w].match, task |-> req[w].task, user |-> req[w].actor])
    /\ req' = [req EXCEPT ![w] = [@ EXCEPT !.pc = "done", !.outcome = "Du uebernimmst"]]
    /\ UNCHANGED <<users, licenseMap, teams, membership, matches, matchDates, availability,
                   lineup, messages, nextUserId, nextTeamId, nextMatchId, nextDateId, mail, last>>

-----------------------------------------------------------------------------
(* The other routes as the statements of one request.  A worker holds the   *)
(* request between two statements; Finish returns the response and frees    *)
(* the worker.                                                              *)

Finish(w) ==
    /\ req[w].pc = "done"
    /\ req' = [req EXCEPT ![w] = Idle]
    /\ UNCHANGED <<store, mail, last>>

\* match_create: the gate, the INSERT of the match, safe_get_match_id, one
\* INSERT per non-empty proposed date, the notification of the members.
\* inserted is the id the database gave the request's row (the handler does
\* not read it), made the ids it gave the request's dates.
CreateMatchStart(w, a, team_id, opponent_raw, location_raw, dates) ==
    /\ req[w].pc = "idle"
    /\ req' = [req EXCEPT ![w] =
                   [pc |-> IF RequireCaptain(a, team_id) THEN "mc_insert" ELSE "done",
                    op |-> "match_create", actor |-> a.id, team |-> team_id,
                    opponent |-> Strip(opponent_raw), location |-> Strip(location_raw),
                    dates |-> NonEmpty(dates), inserted |-> NoId, id |-> NoId, made |-> {},
                    outcome |-> IF RequireCaptain(a, team_id) THEN "" ELSE "Unauthorized"]]
    /\ UNCHANGED <<store, mail, last>>

CreateMatchInsert(w) ==
    /\ req[w].pc = "mc_insert"
    /\ nextMatchId <= MaxMatches
    /\ matches' = matches \cup {[id |-> nextMatchId, team |-> req[w].team,
                                 opponent |-> req[w].opponent, location |-> req[w].location,
                                 status |-> "planned", final_date |-> NULL]}
    /\ nextMatchId' = nextMatchId + 1
    /\ req' = [req EXCEPT ![w] = [@ EXCEPT !.pc = "mc_select", !.inserted = nextMatchId]]
    /\ UNCHANGED <<users, licenseMap, teams, membership, matchDates, availability, lineup,
                   tasks, messages, nextUserId, nextTeamId, nextDateId, mail, last>>

CreateMatchSelect(w) ==
    /\ req[w].pc = "mc_select"
    /\ req' = [req EXCEPT ![w] =
                   IF \E m \in matches : /\ m.team = req[w].team /\ m.opponent = req[w].opponent
                                         /\ m.location = req[w].location
                   THEN [@ EXCEPT !.pc = "mc_dates",
                                  !.id = SafeGetMatchId(matches, req[w].team, req[w].opponent,
                                                        req[w].location)]
                   ELSE [@ EXCEPT !.pc = "done", !.outcome = "Internal Server Error"]]
    /\ UNCHANGED <<store, mail, last>>

CreateMatchDate(w) ==
    /\ req[w].pc = "mc_dates"
    /\ req[w].dates # <<>>
    /\ nextDateId <= MaxDates
    /\ matchDates' = matchDates \cup {[id |-> nextDateId, match |-> req[w].id,
                                       proposed_datetime |-> ReplaceT(Head(req[w].dates))]}
    /\ nextDateId' = nextDateId + 1
    /\ req' = [req EXCEPT ![w] = [@ EXCEPT !.dates = Tail(@), !.made = @ \cup {nextDateId}]]
    /\ UNCHANGED <<users, licenseMap, teams, membership, matches, availability, lineup, tasks,
                   messages, nextUserId, nextTeamId, nextMatchId, mail, last>>

CreateMatchNotify(w) ==
    /\ req[w].pc = "mc_dates"
    /\ req[w].dates = <<>>
    /\ \E mode \in MailModes :
           /\ mail' = SendEmail(mode, ApprovedMembers(req[w].team), "Neues Match geplant")
           /\ req' = [req EXCEPT ![w] =
                          [@ EXCEPT !.pc = "done",
                                    !.outcome = AfterEmail(mode, "Match erstellt.")]]
    /\ UNCHANGED <<store, last>>

\* match_confirm_date: the read of the match with its gate, the SELECT of the
\* date, the UPDATE of the match.
ConfirmStart(w, a, match_id, date_id) ==
    /\ req[w].pc = "idle"
    /\ req' = [req EXCEPT ![w] =
                   [pc |-> IF RequireMatchCaptain(a, match_id) THEN "confirm_select" ELSE "done",
                    op |-> "match_confirm_date", actor |-> a.id, id |-> match_id,
                    date |-> date_id, d |-> {},
                    outcome |-> IF MatchJoinTeam(match_id) = {} THEN "Not found"
                                ELSE IF ~RequireMatchCaptain(a, match_id) THEN "Unauthorized"
                                ELSE ""]]
    /\ UNCHANGED <<store, mail, last>>

ConfirmSelect(w) ==
    /\ req[w].pc = "confirm_select"
    /\ LET d == DateOfMatch(matchDates, req[w].date, req[w].id)
       IN  req' = [req EXCEPT ![w] =
                       IF d = {}
                       THEN [@ EXCEPT !.pc = "done", !.outcome = "Invalid date"]
                       ELSE [@ EXCEPT !.pc = "confirm_update", !.d = d]]
    /\ UNCHANGED <<store, mail, last>>

ConfirmUpdate(w) ==
    /\ req[w].pc = "confirm_update"
    /\ matches' = {IF m.id = req[w].id
                   THEN ConfirmMatch(m, CHOOSE x \in req[w].d : TRUE)
                   ELSE m : m \in matches}
    /\ req' = [req EXCEPT ![w] = [@ EXCEPT !.pc = "done", !.outcome = "Datum bestaetigt."]]
    /\ UNCHANGED <<users, licenseMap, teams, membership, matchDates, availability, lineup,
                   tasks, messages, nextUserId, nextTeamId, nextMatchId, nextDateId, mail, last>>

\* team_create_route_post: the role and name checks, the INSERT of the team,
\* safe_get_team_id, the INSERT of the captain's membership.
CreateTeamStart(w, a, name_raw) ==
    /\ req[w].pc = "idle"
    /\ req' = [req EXCEPT ![w] =
                   [pc |-> IF a.role \in TeamCreateRoles /\ Strip(name_raw) # <<>>
                           THEN "create_insert" ELSE "done",
                    op |-> "team_create", actor |-> a.id, club |-> a.club,
                    name |-> Strip(name_raw), team |-> NoId,
                    outcome |-> IF a.role \notin TeamCreateRoles THEN "Nur Captains"
                                ELSE IF Strip(name_raw) = <<>> THEN "Teamname fehlt." ELSE ""]]
    /\ UNCHANGED <<store, mail, last>>

CreateTeamInsert(w) ==
    /\ req[w].pc = "create_insert"
    /\ nextTeamId <= MaxTeams
    /\ teams' = teams \cup {[id |-> nextTeamId, club |-> req[w].club, name |-> req[w].name,
                             captain |-> req[w].actor]}
    /\ nextTeamId' = nextTeamId + 1
    /\ req' = [req EXCEPT ![w] = [@ EXCEPT !.pc = "create_select"]]
    /\ UNCHANGED <<users, licenseMap, membership, matches, matchDates, availability, lineup,
                   tasks, messages, nextUserId, nextMatchId, nextDateId, mail, last>>

CreateTeamSelect(w) ==
    /\ req[w].pc = "create_select"
    /\ req' = [req EXCEPT ![w] =
                   IF \E t \in teams : /\ t.club = req[w].club /\ t.captain = req[w].actor
                                       /\ t.name = req[w].name
                   THEN [@ EXCEPT !.pc = "create_member",
                                  !.team = SafeGetTeamId(teams, req[w].club, req[w].actor,
                                                         req[w].name)]
                   ELSE [@ EXCEPT !.pc = "done", !.outcome = "Internal Server Error"]]
    /\ UNCHANGED <<store, mail, last>>

CreateTeamMember(w) ==
    /\ req[w].pc = "create_member"
    /\ membership' = Insert(membership, [user |-> req[w].actor, team |-> req[w].team,
                                         approved |-> 1, approved_at |-> NOW])
    /\ req' = [req EXCEPT ![w] = [@ EXCEPT !.pc = "done", !.outcome = "Team erstellt."]]
    /\ UNCHANGED <<users, licenseMap, teams, matches, matchDates, availability, lineup, tasks,
                   messages, nextUserId, nextTeamId, nextMatchId, nextDateId, mail, last>>

\* The request dies after the team's INSERT has committed (safe_get_team_id
\* raises, the pool has no connection for the next statement).
CreateTeamAbort(w) ==
    /\ req[w].pc \in {"create_select", "create_member"}
    /\ req' = [req EXCEPT ![w] = [@ EXCEPT !.pc = "done", !.outcome = "Internal Server Error"]]
    /\ UNCHANGED <<store, mail, last>>

\* team_join: the SELECT, the INSERT, the notification of the captain.
JoinStart(w, a, team_id) ==
    /\ req[w].pc = "idle"
    /\ req' = [req EXCEPT ![w] = [pc |-> "join_select", op |-> "team_join", actor |-> a.id,
                                  team |-> team_id, outcome |-> ""]]
    /\ UNCHANGED <<store, mail, last>>

JoinSelect(w) ==
    /\ req[w].pc = "join_select"
    /\ req' = [req EXCEPT ![w] =
                   IF \E r \in Rows(membership) : r.user = req[w].actor /\ r.team = req[w].team
                   THEN [@ EXCEPT !.pc = "done",
                                  !.outcome = "Du hast bereits eine Anfrage / Mitgliedschaft."]
                   ELSE [@ EXCEPT !.pc = "join_insert"]]
    /\ UNCHANGED <<store, mail, last>>

JoinInsert(w) ==
    /\ req[w].pc = "join_insert"
    /\ BagCardinality(membership) <= MaxRows
    /\ membership' = Insert(membership, [user |-> req[w].actor, team |-> req[w].team,
                                         approved |-> 0, approved_at |-> NULL])
    /\ req' = [req EXCEPT ![w] = [@ EXCEPT !.pc = "join_notify"]]
    /\ UNCHANGED <<users, licenseMap, teams, matches, matchDates, availability, lineup, tasks,
                   messages, nextUserId, nextTeamId, nextMatchId, nextDateId, mail, last>>

JoinNotify(w) ==
    /\ req[w].pc = "join_notify"
    /\ LET captain == {u \in users : \E t \in teams : t.id = req[w].team /\ u.id = t.captain}
       IN  \E mode \in MailModes :
               /\ mail' = SendEmail(mode, {u.id : u \in captain}, "Neue Team-Anfrage")
               /\ req' = [req EXCEPT ![w] =
                              [@ EXCEPT !.pc = "done",
                                        !.outcome = AfterEmail(mode, "Beitrittsanfrage gesendet.")]]
    /\ UNCHANGED <<store, last>>

-----------------------------------------------------------------------------
(* Requests whose writes do not depend on what they read after the gate: *)
(* the gate decides, the db_write statements that follow are queued in   *)
(* todo and Execute commits them one at a time.                          *)

Statement(sql, id, user, value) == [sql |-> sql, id |-> id, user |-> user, value |-> value]

\* A request past its gate: the statements still to run, the rows it removed
\* so far and the rows of the match it found when it started.
Running(op, a, id, todo, outcome, old, new) ==
    [pc |-> IF todo = <<>> THEN "done" ELSE "run", op |-> op, actor |-> a.id, id |-> id,
     todo |-> todo, outcome |-> outcome, removed |-> 0, old |-> old, new |-> new]

Refused(op, a, id, outcome) ==
    [pc |-> "done", op |-> op, actor |-> a.id, id |-> id, todo |-> <<>>, outcome |-> outcome,
     removed |-> 0, old |-> {}, new |-> {}]

\* The six DELETE statements of match_delete, in the order of the source.
DeleteMatchStatements(mid) ==
    <<Statement("DELETE FROM match_messages", mid, NoId, NULL),
      Statement("DELETE FROM match_tasks", mid, NoId, NULL),
      Statement("DELETE FROM lineup", mid, NoId, NULL),
      Statement("DELETE a FROM availability", mid, NoId, NULL),
      Statement("DELETE FROM match_dates", mid, NoId, NULL),
      Statement("DELETE FROM matches", mid, NoId, NULL)>>

RECURSIVE DeleteMatchesStatements(_)
DeleteMatchesStatements(mids) ==
    IF mids = <<>> THEN <<>>
    ELSE DeleteMatchStatements(Head(mids)) \o DeleteMatchesStatements(Tail(mids))

DeleteMatchStart(w, a, match_id) ==
    /\ req[w].pc = "idle"
    /\ req' = [req EXCEPT ![w] =
                   IF ~RequireMatchCaptain(a, match_id)
                   THEN Refused("match_delete", a, match_id, "Unauthorized")
                   ELSE Running("match_delete", a, match_id, DeleteMatchStatements(match_id),
                                "Match geloescht.", {}, {})]
    /\ UNCHANGED <<store, mail, last>>

DeleteTeamStart(w, a, team_id) ==
    /\ req[w].pc = "idle"
    /\ req' = [req EXCEPT ![w] =
                   IF ~RequireCaptain(a, team_id)
                   THEN Refused("team_delete", a, team_id, "Unauthorized")
                   ELSE Running("team_delete", a, team_id,
                                DeleteMatchesStatements(
                                    SetToSeq({m.id : m \in {x \in matches : x.team = team_id}}))
                                \o <<Statement("DELETE FROM team_membership", team_id, NoId, NULL),
                                     Statement("DELETE FROM teams", team_id, NoId, NULL)>>,
                                "Team geloescht.", {}, {})]
    /\ UNCHANGED <<store, mail, last>>

StoreRows ==
    BagCardinality(messages) + BagCardinality(tasks) + BagCardinality(lineup)
        + BagCardinality(availability) + BagCardinality(membership)
        + Cardinality(matchDates) + Cardinality(matches) + Cardinality(teams)

\* One db_write: the statement runs and is committed.
Execute(w) ==
    /\ req[w].pc = "run"
    /\ LET st == Head(req[w].todo)
           rest == Tail(req[w].todo)
       IN  /\ messages' =
                  CASE st.sql = "DELETE FROM match_messages" ->
                           DeleteWhere(messages, LAMBDA r : r.match = st.id)
                    [] st.sql = "INSERT INTO match_messages" ->
                           Insert(messages, [match |-> st.id, user |-> st.user, content |-> st.value])
                    [] OTHER -> messages
           /\ tasks' =
                  CASE st.sql = "DELETE FROM match_tasks" ->
                           DeleteWhere(tasks, LAMBDA r : r.match = st.id)
                    [] OTHER -> tasks
           /\ lineup' =
                  CASE st.sql = "DELETE FROM lineup" ->
                           DeleteWhere(lineup, LAMBDA r : r.match = st.id)
                    [] st.sql = "INSERT INTO lineup" ->
                           Insert(lineup, [match |-> st.id, user |-> st.user, confirmed |-> 0])
                    [] OTHER -> lineup
           /\ availability' =
                  CASE st.sql = "DELETE a FROM availability" ->
                           DeleteWhere(availability,
                                       LAMBDA r : /\ AvailabilityOfMatch(matchDates, st.id, r)
                                                  /\ (st.user = NoId \/ r.user = st.user))
                    [] st.sql = "INSERT INTO availability" ->
                           Insert(availability, [match_date |-> st.id, user |-> st.user])
                    [] OTHER -> availability
           /\ matchDates' =
                  CASE st.sql = "DELETE FROM match_dates" -> {d \in matchDates : d.match # st.id}
                    [] st.sql = "INSERT INTO match_dates" ->
                           matchDates \cup {[id |-> nextDateId, match |-> st.id,
                                             proposed_datetime |-> ReplaceT(st.value)]}
                    [] OTHER -> matchDates
           /\ nextDateId' = IF st.sql = "INSERT INTO match_dates" THEN nextDateId + 1 ELSE nextDateId
           /\ matches' =
                  CASE st.sql = "DELETE FROM matches" -> {m \in matches : m.id # st.id}
                    [] st.sql = "UPDATE matches SET opponent, location" ->
                           {IF m.id = st.id
                            THEN [m EXCEPT !.opponent = st.value[1], !.location = st.value[2]]
                            ELSE m : m \in matches}
                    [] st.sql = "UPDATE matches SET status='planned'" ->
                           {IF m.id = st.id THEN RevertToPlanned(m) ELSE m : m \in matches}
                    [] OTHER -> matches
           /\ membership' =
                  CASE st.sql = "DELETE FROM team_membership" ->
                           DeleteWhere(membership, LAMBDA r : r.team = st.id)
                    [] OTHER -> membership
           /\ teams' =
                  CASE st.sql = "DELETE FROM teams" -> {t \in teams : t.id # st.id}
                    [] OTHER -> teams
           /\ st.sql = "INSERT INTO match_dates" => nextDateId <= MaxDates
           /\ req' = [req EXCEPT ![w] =
                          [@ EXCEPT !.todo = rest,
                                    !.pc = IF rest = <<>> THEN "done" ELSE "run",
                                    !.removed = IF StoreRows' < StoreRows
                                                THEN @ + StoreRows - StoreRows' ELSE @]]
    /\ UNCHANGED <<users, licenseMap, nextUserId, nextTeamId, nextMatchId, mail, last>>

\* match_message: the gate, the empty-content test, the INSERT.
MessageStart(w, a, match_id, content_raw) ==
    /\ req[w].pc = "idle"
    /\ req' = [req EXCEPT ![w] =
                   IF ~RequireMatchMember(a, match_id)
                   THEN Refused("match_message", a, match_id, "Unauthorized")
                   ELSE IF Strip(content_raw) = <<>>
                   THEN Refused("match_message", a, match_id, "Nachricht leer.")
                   ELSE Running("match_message", a, match_id,
                                <<Statement("INSERT INTO match_messages", match_id, a.id,
                                            Strip(content_raw))>>,
                                "Nachricht gesendet.", {}, {})]
    /\ UNCHANGED <<store, mail, last>>

\* match_set_lineup: the gate, the DELETE, one INSERT per selected player.
LineupStart(w, a, match_id, selected) ==
    /\ req[w].pc = "idle"
    /\ req' = [req EXCEPT ![w] =
                   IF MatchJoinTeam(match_id) = {}
                   THEN Refused("match_set_lineup", a, match_id, "Not found")
                   ELSE IF ~RequireMatchCaptain(a, match_id)
                   THEN Refused("match_set_lineup", a, match_id, "Unauthorized")
                   ELSE Running("match_set_lineup", a, match_id,
                                <<Statement("DELETE FROM lineup", match_id, NoId, NULL)>>
                                \o [i \in 1..Cardinality(selected) |->
                                       Statement("INSERT INTO lineup", match_id,
                                                 SetToSeq(selected)[i], NULL)],
                                "Lineup gespeichert.",
                                {r.user : r \in {x \in Rows(lineup) : x.match = match_id}},
                                selected)]
    /\ UNCHANGED <<store, mail, last>>

\* match_availability: the gate, the DELETE of the actor's rows, one INSERT
\* per selected date id.
AvailabilityStart(w, a, match_id, selected) ==
    /\ req[w].pc = "idle"
    /\ req' = [req EXCEPT ![w] =
                   IF ~RequireMatchMember(a, match_id)
                   THEN Refused("match_availability", a, match_id, "Unauthorized")
                   ELSE Running("match_availability", a, match_id,
                                <<Statement("DELETE a FROM availability", match_id, a.id, NULL)>>
                                \o [i \in 1..Cardinality(selected) |->
                                       Statement("INSERT INTO availability",
                                                 SetToSeq(selected)[i], a.id, NULL)],
                                "Verfuegbarkeit gespeichert.",
                                {r.match_date : r \in {x \in Rows(availability) :
                                     x.user = a.id /\ AvailabilityOfMatch(matchDates, match_id, x)}},
                                selected)]
    /\ UNCHANGED <<store, mail, last>>

\* match_edit_post: the gate, the UPDATE of opponent and location and, with
\* proposed dates, the two DELETEs, one INSERT per date, the UPDATE to planned.
EditStart(w, a, match_id, opponent_raw, location_raw, dates) ==
    /\ req[w].pc = "idle"
    /\ req' = [req EXCEPT ![w] =
                   IF ~RequireMatchCaptain(a, match_id)
                   THEN Refused("match_edit", a, match_id, "Unauthorized")
                   ELSE Running("match_edit", a, match_id,
                                <<Statement("UPDATE matches SET opponent, location", match_id, NoId,
                                            <<Strip(opponent_raw), Strip(location_raw)>>)>>
                                \o (IF NonEmpty(dates) = <<>> THEN <<>>
                                    ELSE <<Statement("DELETE a FROM availability", match_id, NoId, NULL),
                                           Statement("DELETE FROM match_dates", match_id, NoId, NULL)>>
                                         \o [i \in 1..Len(NonEmpty(dates)) |->
                                                Statement("INSERT INTO match_dates", match_id,
                                                          NoId, NonEmpty(dates)[i])]
                                         \o <<Statement("UPDATE matches SET status='planned'",
                                                        match_id, NoId, NULL)>>),
                                "Match gespeichert.",
                                {d.proposed_datetime : d \in {x \in matchDates : x.match = match_id}},
                                {ReplaceT(NonEmpty(dates)[i]) : i \in 1..Len(NonEmpty(dates))})]
    /\ UNCHANGED <<store, mail, last>>

\* A request that dies between two statements (the pool has no connection,
\* the server is gone): what it committed stays, the rest never runs.
Abort(w) ==
    /\ req[w].pc = "run"
    /\ req[w].todo # <<>>
    /\ req' = [req EXCEPT ![w] = [@ EXCEPT !.pc = "done", !.todo = <<>>,
                                           !.outcome = "Internal Server Error"]]
    /\ UNCHANGED <<store, mail, last>>

-----------------------------------------------------------------------------
(* Requests: what a logged-in user may send.  Ids come from the pages the   *)
(* server rendered, so they are ids some counter has issued, or NoId for an *)
(* id that was never issued.                                                *)

NameInputs == {<<" ">>, <<"A">>, <<"A", " ">>}

DateInputs == {<<>>, <<"1", "T", "8">>, <<"2", "T", "8">>}

\* The proposal_dates fields of one form, empty ones included.
DateLists == [1..MaxProposals -> DateInputs]

TeamIds == 0..(nextTeamId - 1)

MatchIds == 1..(nextMatchId - 1)

DateIds == 0..(nextDateId - 1)

(* The match scheduler: the captain's team, one match and its dates. *)
NextSched ==
    \/ teams = {} /\ TeamCreateRoutePost(Captain, <<"A">>)
    \/ \E a \in {Captain, Player}, t \in TeamIds, dates \in DateLists :
           matches = {} /\ MatchCreate(a, t, <<"R">>, <<"R">>, dates)
    \/ \E a \in users, m \in MatchIds, sel \in SUBSET (DateIds \ {NoId}) :
           MatchAvailability(a, m, sel)
    \/ \E a \in users, m \in MatchIds, d \in DateIds : MatchConfirmDate(a, m, d)
    \/ \E a \in users, m \in MatchIds, dates \in DateLists :
           MatchEditPost(a, m, <<" ", "S">>, <<"R">>, dates)

SpecSched == Init /\ [][NextSched]_vars

(* Every route and every actor on narrow inputs: the first team and the    *)
(* first match only, one proposed date, one task, one message at a time.   *)
OneDate == <<<<"1", "T", "8">>, <<>>, <<>>>>

NoDates == <<<<>>, <<>>, <<>>>>

Next ==
    \/ \E a \in users : nextTeamId = 1 /\ TeamCreateRoutePost(a, <<"A">>)
    \/ \E t \in TeamIds \ {NoId} : TeamJoin(Player, t)
    \/ \E a \in users, t \in TeamIds, action \in {"approve", "deny"} :
           TeamRequests(a, t, Player.id, action)
    \/ \E a \in users, t \in TeamIds : TeamDelete(a, t)
    \/ \E a \in users, t \in TeamIds :
           nextMatchId = 1 /\ MatchCreate(a, t, <<"R">>, <<"R">>, OneDate)
    \/ \E a \in users, m \in MatchIds : MatchEditPost(a, m, <<" ", "S">>, <<"R">>, NoDates)
    \/ \E a \in users, m \in MatchIds : MatchDelete(a, m)
    \/ \E a \in users, m \in MatchIds : MatchAvailability(a, m, DateIds \ {NoId})
    \/ \E a \in users, m \in MatchIds, d \in DateIds : MatchConfirmDate(a, m, d)
    \/ \E a \in users, m \in MatchIds : MatchSetLineup(a, m, {Player.id})
    \/ \E a \in users, m \in MatchIds : MatchConfirmLineup(a, m, "yes")
    \/ \E a \in users, m \in MatchIds : MatchTask(a, m, "Balls")
    \/ \E a \in users, m \in MatchIds : messages = EmptyBag /\ MatchMessage(a, m, <<"h", " ">>)

Spec == Init /\ [][Next]_vars

TwoDates == <<<<"1", "T", "8">>, <<>>, <<"2", "T", "8">>>>

(* Teams and membership: every actor, every name. *)
NextTeam ==
    \/ \E a \in users, name \in NameInputs : TeamCreateRoutePost(a, name)
    \/ \E a \in {Captain, Player}, t \in TeamIds \ {NoId} : TeamJoin(a, t)
    \/ \E a \in users, t \in TeamIds, action \in {"approve", "deny"} :
           TeamRequests(a, t, Player.id, action)
    \/ \E a \in users, t \in TeamIds : TeamDelete(a, t)

SpecTeam == Init /\ [][NextTeam]_vars

(* Deleting: two teams' worth of rows in every dependent table, written by *)
(* the captain and deleted by the captain or the club_admin.               *)
NextDel ==
    \/ TeamCreateRoutePost(Captain, <<"A">>)
    \/ \E t \in TeamIds \ {NoId} : TeamJoin(Player, t)
    \/ \E t \in TeamIds \ {NoId}, dates \in {OneDate, TwoDates} :
           MatchCreate(Captain, t, <<"R">>, <<"R">>, dates)
    \/ \E m \in MatchIds : MatchAvailability(Captain, m, DateIds \ {NoId})
    \/ \E m \in MatchIds : MatchSetLineup(Captain, m, UserIds)
    \/ \E m \in MatchIds : MatchTask(Captain, m, "Balls")
    \/ \E m \in MatchIds : MatchMessage(Captain, m, <<"h">>)
    \/ \E a \in {Captain, Admin}, m \in MatchIds : MatchDelete(a, m)
    \/ \E a \in {Captain, Admin}, t \in TeamIds : TeamDelete(a, t)

SpecDel == Init /\ [][NextDel]_vars

(* Claiming a task: an approved player, the captain and the club_admin, each *)
(* request run by a worker statement by statement.                           *)
NextTask ==
    \/ teams = {} /\ TeamCreateRoutePost(Captain, <<"A">>)
    \/ \E t \in TeamIds \ {NoId} : TeamJoin(Player, t)
    \/ \E t \in TeamIds \ {NoId} : TeamRequests(Captain, t, Player.id, "approve")
    \/ \E t \in TeamIds \ {NoId} : matches = {} /\ MatchCreate(Captain, t, <<"R">>, <<"R">>, NoDates)
    \/ \E w \in Workers, a \in users, m \in MatchIds, task \in TaskNames : TaskStart(w, a, m, task)
    \/ \E w \in Workers : TaskGate(w)
    \/ \E w \in Workers : TaskSelect(w)
    \/ \E w \in Workers : TaskInsert(w)

SpecTask == Init /\ [][NextTask]_vars

(* Joining one team: the player's requests statement by statement on two *)
(* workers, and the captain's decisions on them.                         *)
NextJoin ==
    \/ teams = {} /\ TeamCreateRoutePost(Captain, <<"A">>)
    \/ \E w \in Workers, a \in {Player, Captain}, t \in TeamIds \ {NoId} : JoinStart(w, a, t)
    \/ \E w \in Workers : JoinSelect(w)
    \/ \E w \in Workers : JoinInsert(w)
    \/ \E w \in Workers : JoinNotify(w)
    \/ \E w \in Workers : Finish(w)
    \/ \E t \in TeamIds \ {NoId}, action \in {"approve", "deny"} :
           TeamRequests(Captain, t, Player.id, action)

SpecJoin == Init /\ [][NextJoin]_vars

(* The roster of one team: joins by every user, decisions on every user by *)
(* every actor.                                                            *)
NextRoster ==
    \/ \E a \in {Captain, Admin} : teams = {} /\ TeamCreateRoutePost(a, <<"A">>)
    \/ \E a \in users, t \in TeamIds \ {NoId} : TeamJoin(a, t)
    \/ \E a \in users, t \in TeamIds, u \in UserIds, action \in {"approve", "deny"} :
           TeamRequests(a, t, u, action)

SpecRoster == Init /\ [][NextRoster]_vars

(* The notifying routes: joins, decisions and match creation, under every *)
(* behaviour of the mail server.                                          *)
NextNotify ==
    \/ teams = {} /\ TeamCreateRoutePost(Captain, <<"A">>)
    \/ \E a \in {Player, Admin}, t \in TeamIds \ {NoId} : TeamJoin(a, t)
    \/ \E a \in users, t \in TeamIds, u \in UserIds \ {Captain.id}, action \in {"approve", "deny"} :
           TeamRequests(a, t, u, action)
    \/ \E a \in users, t \in TeamIds, dates \in {OneDate, NoDates} :
           MatchCreate(a, t, <<"R">>, <<"R">>, dates)

SpecNotify == Init /\ [][NextNotify]_vars

(* The cascades statement by statement: the first team, its first match *)
(* with a date, a task and a message written by the captain, and the    *)
(* deletions of the captain and the club_admin on two workers.          *)
NextCascade ==
    \/ nextTeamId = 1 /\ TeamCreateRoutePost(Captain, <<"A">>)
    \/ \E t \in TeamIds \ {NoId} :
           nextMatchId = 1 /\ MatchCreate(Captain, t, <<"R">>, <<"R">>, OneDate)
    \/ \E m \in MatchIds : MatchTask(Captain, m, "Balls")
    \/ \E m \in MatchIds : messages = EmptyBag /\ MatchMessage(Captain, m, <<"h">>)
    \/ \E w \in Workers, a \in {Captain, Admin}, m \in MatchIds : DeleteMatchStart(w, a, m)
    \/ \E w \in Workers, a \in {Captain, Admin}, t \in TeamIds \ {NoId} : DeleteTeamStart(w, a, t)
    \/ \E w \in Workers : Execute(w)
    \/ \E w \in Workers : Abort(w)

SpecCascade == Init /\ [][NextCascade]_vars

(* Writers against deleters: the captain's message, task claim, availability *)
(* and lineup on one worker while a deletion of the match or of its team     *)
(* runs on the other.                                                        *)
NextOrphan ==
    \/ nextTeamId = 1 /\ TeamCreateRoutePost(Captain, <<"A">>)
    \/ \E t \in TeamIds \ {NoId} :
           /\ nextMatchId = 1 /\ \A w \in Workers : req[w].pc = "idle"
           /\ MatchCreate(Captain, t, <<"R">>, <<"R">>, OneDate)
    \/ \E w \in Workers, m \in MatchIds : MessageStart(w, Captain, m, <<"h">>)
    \/ \E w \in Workers, m \in MatchIds : TaskStart(w, Captain, m, "Balls")
    \/ \E w \in Workers : TaskGate(w)
    \/ \E w \in Workers : TaskSelect(w)
    \/ \E w \in Workers : TaskInsert(w)
    \/ \E w \in Workers, m \in MatchIds :
           AvailabilityStart(w, Captain, m, {d.id : d \in {x \in matchDates : x.match = m}})
    \/ \E w \in Workers, m \in MatchIds : LineupStart(w, Captain, m, {Captain.id})
    \/ \E w \in Workers, m \in MatchIds : DeleteMatchStart(w, Captain, m)
    \/ \E w \in Workers, t \in TeamIds \ {NoId} : DeleteTeamStart(w, Captain, t)
    \/ \E w \in Workers : Execute(w)

SpecOrphan == Init /\ [][NextOrphan]_vars

(* Replacing a match's dates, a player's availability and the lineup, each *)
(* request statement by statement, on a match the captain may have         *)
(* confirmed before.                                                       *)
NewDate == <<<<>>, <<"2", "T", "8">>, <<>>>>

NextReplace ==
    \/ nextTeamId = 1 /\ TeamCreateRoutePost(Captain, <<"A">>)
    \/ \E t \in TeamIds \ {NoId} :
           /\ nextMatchId = 1 /\ \A w \in Workers : req[w].pc = "idle"
           /\ MatchCreate(Captain, t, <<"R">>, <<"R">>, OneDate)
    \/ \E m \in MatchIds, d \in DateIds \ {NoId} :
           /\ \A w \in Workers : req[w].pc = "idle"
           /\ MatchConfirmDate(Captain, m, d)
    \/ \E w \in Workers, m \in MatchIds : EditStart(w, Captain, m, <<"S">>, <<"R">>, NewDate)
    \/ \E w \in Workers, m \in MatchIds :
           AvailabilityStart(w, Captain, m, {d.id : d \in {x \in matchDates : x.match = m}})
    \/ \E w \in Workers, m \in MatchIds : LineupStart(w, Captain, m, {Captain.id})
    \/ \E w \in Workers : Execute(w)
    \/ \E w \in Workers : Finish(w)

SpecReplace == Init /\ [][NextReplace]_vars

(* A reschedule against availability submissions: the approved player and *)
(* the captain submit the date ids the match page showed them while the   *)
(* captain's edit replaces the dates.                                     *)
NextStale ==
    \/ nextTeamId = 1 /\ TeamCreateRoutePost(Captain, <<"A">>)
    \/ \E t \in TeamIds \ {NoId} : TeamJoin(Player, t)
    \/ \E t \in TeamIds \ {NoId} : TeamRequests(Captain, t, Player.id, "approve")
    \/ \E t \in TeamIds \ {NoId} :
           /\ nextMatchId = 1 /\ \A w \in Workers : req[w].pc = "idle"
           /\ MatchCreate(Captain, t, <<"R">>, <<"R">>, OneDate)
    \/ \E w \in Workers, a \in {Captain, Player}, m \in MatchIds :
           AvailabilityStart(w, a, m, {d.id : d \in {x \in matchDates : x.match = m}})
    \/ \E w \in Workers, m \in MatchIds : EditStart(w, Captain, m, <<"S">>, <<"R">>, NewDate)
    \/ \E w \in Workers : Execute(w)

SpecStale == Init /\ [][NextStale]_vars

(* Creating teams statement by statement: the captain, the club_admin and *)
(* the player on two workers, the captain deleting a team in between.     *)
NextCreate ==
    \/ \E w \in Workers, a \in users, name_raw \in {<<"A">>, <<" ">>} :
           CreateTeamStart(w, a, name_raw)
    \/ \E w \in Workers : CreateTeamInsert(w)
    \/ \E w \in Workers : CreateTeamSelect(w)
    \/ \E w \in Workers : CreateTeamMember(w)
    \/ \E w \in Workers : CreateTeamAbort(w)
    \/ \E w \in Workers : Finish(w)
    \/ \E t \in TeamIds \ {NoId} : TeamDelete(Captain, t)

SpecCreate == Init /\ [][NextCreate]_vars

(* Claiming tasks again and again: the captain and the club_admin, request *)
(* by request on two workers, until the captain deletes the match.         *)
NextClaim ==
    \/ nextTeamId = 1 /\ TeamCreateRoutePost(Captain, <<"A">>)
    \/ \E t \in TeamIds \ {NoId} :
           /\ nextMatchId = 1 /\ \A w \in Workers : req[w].pc = "idle"
           /\ MatchCreate(Captain, t, <<"R">>, <<"R">>, NoDates)
    \/ \E w \in Workers, a \in {Captain, Admin}, m \in MatchIds, task \in {"Balls", "Drinks"} :
           TaskStart(w, a, m, task)
    \/ \E w \in Workers : TaskGate(w)
    \/ \E w \in Workers : TaskSelect(w)
    \/ \E w \in Workers : TaskInsert(w)
    \/ \E w \in Workers : Finish(w)
    \/ \E m \in MatchIds : MatchDelete(Captain, m)

SpecClaim == Init /\ [][NextClaim]_vars

(* The task form: match_detail offers the three task names, the POST carries *)
(* whatever the client puts into the field.                                  *)
TaskFormValues == TaskNames \cup {"Snacks"}

NextForm ==
    \/ nextTeamId = 1 /\ TeamCreateRoutePost(Captain, <<"A">>)
    \/ \E t \in TeamIds \ {NoId} :
           nextMatchId = 1 /\ MatchCreate(Captain, t, <<"R">>, <<"R">>, NoDates)
    \/ \E a \in users, m \in MatchIds, task \in TaskFormValues : MatchTask(a, m, task)

SpecForm == Init /\ [][NextForm]_vars

(* The lineup of two matches: the captain and the club_admin set it, the *)
(* players answer, the player tries to set it too.                       *)
NextLineup ==
    \/ nextTeamId = 1 /\ TeamCreateRoutePost(Captain, <<"A">>)
    \/ \E t \in TeamIds \ {NoId} : MatchCreate(Captain, t, <<"R">>, <<"R">>, NoDates)
    \/ \E a \in users, m \in MatchIds, sel \in SUBSET {Captain.id, Player.id} :
           MatchSetLineup(a, m, sel)
    \/ \E a \in users, m \in MatchIds, response \in {"yes", "no"} :
           MatchConfirmLineup(a, m, response)

SpecLineup == Init /\ [][NextLineup]_vars

(* Two matches with one proposed date each: date ids of the own match, of *)
(* the other match and of no match at all in confirmations, date ids of   *)
(* both matches in availability submissions.                              *)
NextDates ==
    \/ nextTeamId = 1 /\ TeamCreateRoutePost(Captain, <<"A">>)
    \/ \E t \in TeamIds \ {NoId} : MatchCreate(Captain, t, <<"R">>, <<"R">>, OneDate)
    \/ \E a \in {Captain, Admin}, m \in MatchIds, d \in DateIds : MatchConfirmDate(a, m, d)
    \/ \E a \in {Captain, Admin}, m \in MatchIds, sel \in SUBSET (DateIds \ {NoId}) :
           MatchAvailability(a, m, sel)

SpecDates == Init /\ [][NextDates]_vars

(* Confirming a date against a reschedule of the same match, each request *)
(* statement by statement on its worker.                                  *)
NextConfirm ==
    \/ nextTeamId = 1 /\ TeamCreateRoutePost(Captain, <<"A">>)
    \/ \E t \in TeamIds \ {NoId} :
           /\ nextMatchId = 1 /\ \A w \in Workers : req[w].pc = "idle"
           /\ MatchCreate(Captain, t, <<"R">>, <<"R">>, OneDate)
    \/ \E w \in Workers, a \in {Captain, Player}, m \in MatchIds, d \in DateIds :
           ConfirmStart(w, a, m, d)
    \/ \E w \in Workers : ConfirmSelect(w)
    \/ \E w \in Workers : ConfirmUpdate(w)
    \/ \E w \in Workers, m \in MatchIds : EditStart(w, Captain, m, <<"S">>, <<"R">>, NewDate)
    \/ \E w \in Workers : Execute(w)
    \/ \E w \in Workers : Finish(w)

SpecConfirm == Init /\ [][NextConfirm]_vars

(* Creating matches statement by statement: the captain and the club_admin *)
(* on two workers, with the same or with different opponents.              *)
NextPlan ==
    \/ nextTeamId = 1 /\ TeamCreateRoutePost(Captain, <<"A">>)
    \/ \E w \in Workers, a \in users, t \in TeamIds \ {NoId}, opponent_raw \in {<<"R">>, <<"S">>} :
           CreateMatchStart(w, a, t, opponent_raw, <<"R">>, OneDate)
    \/ \E w \in Workers : CreateMatchInsert(w)
    \/ \E w \in Workers : CreateMatchSelect(w)
    \/ \E w \in Workers : CreateMatchDate(w)
    \/ \E w \in Workers : CreateMatchNotify(w)
    \/ \E w \in Workers : Finish(w)

SpecPlan == Init /\ [][NextPlan]_vars

-----------------------------------------------------------------------------
(* Claims about the match scheduler, checked under SpecSched *)

\* The date-time a form value or a stored value denotes: its digits, whatever
\* separates the date from the time.
DateValue(d) == SelectSeq(d, LAMBDA c : c \notin {"T", " "})

MatchRow(ms, match_id) == CHOOSE m \in ms : m.id = match_id

\* The captain of the match's team, or a club_admin, read off the tables.
MayManageMatch(a, match_id) ==
    \E m \in matches : /\ m.id = match_id
                       /\ \E t \in teams : t.id = m.team /\ (t.captain = a.id \/ a.role = "club_admin")

\* An approved member of the match's team, or a club_admin, read off the tables.
MayJoinMatch(a, match_id) ==
    \E m \in matches :
        /\ m.id = match_id
        /\ \E t \in teams : t.id = m.team
        /\ \/ a.role = "club_admin"
           \/ \E r \in Rows(membership) : r.user = a.id /\ r.team = m.team /\ r.approved = 1

Actor(id) == CHOOSE u \in users : u.id = id

Rescheduled(m, new) ==
    LET row == MatchRow(matches', m)
    IN  /\ row.status = "planned"
        /\ row.final_date = NULL
        /\ \A r \in Rows(availability') :
               ~\E d \in matchDates \cup matchDates' : d.id = r.match_date /\ d.match = m
        /\ \A v \in {DateValue(d) : d \in DateInputs \ {<<>>}} :
               Cardinality({d \in matchDates' : d.match = m /\ DateValue(d.proposed_datetime) = v})
                   = Cardinality({i \in 1..Len(new) : DateValue(new[i]) = v})
        /\ \A d \in matchDates' : d.match = m => d.proposed_datetime # NULL

\* C2: editMatch by the captain or a club_admin with a non-empty list of new
\* proposed dates, on a match in any prior state, ends with status planned,
\* final_date NULL, no Availability row for a date of the match, and the match's
\* MatchDate rows holding exactly the new input dates.
C2_RescheduleResets ==
    [][last'.op = "match_edit" =>
           /\ MayManageMatch(Actor(last'.actor), last'.id) => last'.outcome = "Match gespeichert."
           /\ (last'.outcome = "Match gespeichert." /\ last'.dates # <<>>) =>
                  Rescheduled(last'.id, last'.dates)]_vars

\* A confirmed match with availability has just been rescheduled.
C2_Witness ==
    /\ last.op = "match_edit" /\ last.outcome = "Match gespeichert."
    /\ last.was = "confirmed" /\ last.n > Len(last.dates)
    /\ \E m \in matches : m.id = last.id /\ m.status = "planned"

\* C3: in every reachable state, for every match, final_date is non-null if and
\* only if status = confirmed.
C3_FinalDateIffConfirmed ==
    \A m \in matches : (m.final_date # NULL) <=> (m.status = "confirmed")

\* A match that was confirmed has been rescheduled and is planned again.
C3_Witness ==
    /\ last.op = "match_edit" /\ last.was = "confirmed" /\ last.dates # <<>>
    /\ \E m \in matches : m.status = "planned" /\ m.final_date = NULL

\* C4: submitAvailability is idempotent: for every approved member, match and
\* selection of date ids, applying it again with the same selection leaves the
\* Availability rows as they are, one row per selected id for that actor.
C4_SubmitIdempotent ==
    [][last'.op = "match_availability" =>
           /\ MayJoinMatch(Actor(last'.actor), last'.id) =>
                  last'.outcome = "Verfuegbarkeit gespeichert."
           /\ last'.outcome = "Verfuegbarkeit gespeichert." =>
                  /\ AvailabilityAfter(availability', matchDates', last'.actor, last'.id, last'.sel)
                         = availability'
                  /\ \A d \in last'.sel :
                         CopiesIn([match_date |-> d, user |-> last'.actor], availability') = 1]_vars

\* C10: confirmDate by the captain or a club_admin with a dateId of the match
\* sets status = confirmed and final_date = that MatchDate's value, and leaves
\* every MatchDate row and every Availability row unchanged.
C10_ConfirmKeepsHistory ==
    [][last'.op = "match_confirm_date" =>
           /\ last'.outcome = "Datum bestaetigt." =>
                  \E x \in matchDates :
                      /\ x.id \in last'.sel /\ x.match = last'.id
                      /\ MatchRow(matches', last'.id).status = "confirmed"
                      /\ MatchRow(matches', last'.id).final_date = x.proposed_datetime
                      /\ DateValue(x.proposed_datetime) # <<>>
           /\ (/\ MayManageMatch(Actor(last'.actor), last'.id)
               /\ \E x \in matchDates : x.match = last'.id) =>
                  last'.outcome \in {"Datum bestaetigt.", "Invalid date"}
           /\ matchDates' = matchDates
           /\ availability' = availability]_vars

\* A date has just been confirmed while a member's availability for another
\* date of the match is stored.
C10_Witness ==
    /\ last.op = "match_confirm_date" /\ last.outcome = "Datum bestaetigt."
    /\ \E m \in matches, d \in matchDates :
           /\ m.id = last.id /\ m.status = "confirmed" /\ d.match = m.id
           /\ d.id \notin last.sel
           /\ \E r \in Rows(availability) : r.match_date = d.id


-----------------------------------------------------------------------------
(* Claims about the gates and the roles, checked under Spec *)

\* The team's captain, or a club_admin, read off the tables.
MayManageTeam(a, team_id) ==
    \E t \in teams : t.id = team_id /\ (t.captain = a.id \/ a.role = "club_admin")

CaptainGated == {"team_requests", "team_delete", "match_create"}

MatchCaptainGated == {"match_edit", "match_delete", "match_confirm_date", "match_set_lineup"}

MemberGated == {"match_availability", "match_task", "match_message"}

\* The request just answered came from an actor who fails the operation's gate.
FailsGate(l) ==
    \/ l.op \in CaptainGated /\ ~MayManageTeam(Actor(l.actor), l.id)
    \/ l.op \in MatchCaptainGated /\ ~MayManageMatch(Actor(l.actor), l.id)
    \/ l.op \in MemberGated /\ ~MayJoinMatch(Actor(l.actor), l.id)

\* C6: a gated operation invoked by an actor who fails its predicate (neither
\* the team's captain nor a club_admin for the seven captain operations; no
\* approved membership in the match's team and not a club_admin for the three
\* member operations) changes no table and delivers no notification.
C6_FailedGateChangesNothing ==
    [][FailsGate(last') => store' = store /\ mail' = {}]_vars

\* An approved member who is not the captain has just been refused a captain
\* operation on a match that holds proposed dates and availability.
C6_Witness ==
    /\ last.op \in MatchCaptainGated
    /\ FailsGate(last)
    /\ MayJoinMatch(Actor(last.actor), last.id)
    /\ \E d \in matchDates : d.match = last.id
    /\ availability # EmptyBag

-----------------------------------------------------------------------------
(* Claim about concurrent task claims, checked under SpecTask *)

\* An approved member of the match's team, by a row of team_membership.
ApprovedMemberOf(user_id, match_id) ==
    \E m \in matches : /\ m.id = match_id
                       /\ \E r \in Rows(membership) :
                              r.user = user_id /\ r.team = m.team /\ r.approved = 1

\* C1: when two different approved members have each run claimTask to
\* completion for the same (match, task) pair, in any interleaving of their
\* statements, the pair has exactly one MatchTask row, one of the two saw
\* success and the other saw "already claimed".
C1_ExactlyOneClaim ==
    \A w1, w2 \in Workers :
        (/\ w1 # w2
         /\ req[w1].pc = "done" /\ req[w2].pc = "done"
         /\ req[w1].match = req[w2].match /\ req[w1].task = req[w2].task
         /\ req[w1].actor # req[w2].actor
         /\ ApprovedMemberOf(req[w1].actor, req[w1].match)
         /\ ApprovedMemberOf(req[w2].actor, req[w2].match)
         /\ req[w1].outcome # "Unauthorized" /\ req[w2].outcome # "Unauthorized")
        => /\ BagCardinality(DeleteWhere(tasks,
                  LAMBDA r : ~(r.match = req[w1].match /\ r.task = req[w1].task))) = 1
           /\ {req[w1].outcome, req[w2].outcome} = {"Du uebernimmst", "Task ist bereits vergeben."}

-----------------------------------------------------------------------------
(* Claim about team creation, checked under SpecTeam *)

Blank(text) == \A i \in 1..Len(text) : text[i] = " "

\* The team the request created, with exactly one membership row: the
\* creator's, approved, with an approval timestamp.
TeamWithCaptainMembership(l) ==
    /\ \E t \in teams' \ teams : t.id = l.id /\ t.captain = l.actor /\ teams' = teams \cup {t}
    /\ \A r \in Rows(membership') :
           r.team = l.id => r.user = l.actor /\ r.approved = 1 /\ r.approved_at # NULL
    /\ BagCardinality(DeleteWhere(membership', LAMBDA r : r.team # l.id)) = 1

-----------------------------------------------------------------------------
(* Claim about the cascades, checked under SpecDel *)

\* Bag after holds the rows of bag before that do not satisfy Gone, as often.
Kept(after, before, Gone(_)) ==
    \A r \in BagToSet(after) \cup BagToSet(before) :
        CopiesIn(r, after) = IF Gone(r) THEN 0 ELSE CopiesIn(r, before)

\* Every row of the match tables that refers to a match of gone is removed,
\* and every other row is as before.
MatchesGone(gone) ==
    /\ matches' = {m \in matches : m.id \notin gone}
    /\ matchDates' = {d \in matchDates : d.match \notin gone}
    /\ Kept(availability', availability,
            LAMBDA r : \E d \in matchDates : d.id = r.match_date /\ d.match \in gone)
    /\ Kept(lineup', lineup, LAMBDA r : r.match \in gone)
    /\ Kept(tasks', tasks, LAMBDA r : r.match \in gone)
    /\ Kept(messages', messages, LAMBDA r : r.match \in gone)

\* C5: once deleteTeam has completed no Membership, Match, MatchDate,
\* Availability, LineupEntry, MatchTask or MatchMessage row refers to the team
\* or to one of its matches, and the rows of other teams and matches are as
\* before; likewise for deleteMatch and the rows of the match.  Both complete
\* for the team's captain and for a club_admin.
C5_CascadeLeavesNothing ==
    [][/\ last'.op = "team_delete" =>
              /\ MayManageTeam(Actor(last'.actor), last'.id) => last'.outcome = "Team geloescht."
              /\ last'.outcome = "Team geloescht." =>
                     /\ teams' = {t \in teams : t.id # last'.id}
                     /\ Kept(membership', membership, LAMBDA r : r.team = last'.id)
                     /\ MatchesGone({m.id : m \in {x \in matches : x.team = last'.id}})
       /\ last'.op = "match_delete" =>
              /\ MayManageMatch(Actor(last'.actor), last'.id) => last'.outcome = "Match geloescht."
              /\ last'.outcome = "Match geloescht." =>
                     /\ teams' = teams /\ membership' = membership
                     /\ MatchesGone({last'.id})]_vars

\* A team whose match had two messages, a task, three lineup entries, two
\* dates and availability has just been deleted, and another team is left.
C5_Witness ==
    /\ last.op = "team_delete"
    /\ last.outcome = "Team geloescht."
    /\ last.n >= 10
    /\ teams # {}

-----------------------------------------------------------------------------
(* Claim about registration, checked under SpecReg *)

IsPrefixOf(p, l) == Len(p) <= Len(l) /\ \A i \in 1..Len(p) : p[i] = l[i]

Matching(map, lic) == {i \in 1..Len(map) : IsPrefixOf(map[i].license_prefix, lic)}

\* The matching mapping with the longest prefix, the first of them in the
\* order of the table.
Longest(map, lic) ==
    CHOOSE i \in Matching(map, lic) :
        \A j \in Matching(map, lic) :
            \/ Len(map[j].license_prefix) < Len(map[i].license_prefix)
            \/ Len(map[j].license_prefix) = Len(map[i].license_prefix) /\ i <= j

Registered(l) ==
    \E u \in users' \ users :
        /\ users' = users \cup {u}
        /\ u.id = l.id
        /\ u.license = Strip(l.text)
        /\ u.club = licenseMap[Longest(licenseMap, Strip(l.text))].club_id

Taken(l) ==
    \E u \in users : u.email = Lower(Strip(l.dates[1])) \/ u.license = Strip(l.text)

\* C9 as stated: a registration that succeeds resolves the club of the
\* longest matching prefix, first-encountered on ties; when no prefix matches
\* it fails with the unmapped-license error and creates no user.
C9_UnmappedAlwaysReported ==
    [][last'.op = "register" =>
           IF Matching(licenseMap, Strip(last'.text)) = {}
           THEN last'.outcome = "Lizenznummer nicht bekannt" /\ users' = users
           ELSE last'.outcome = "Registrierung erfolgreich." => Registered(last')]_vars

\* C9, amended: a registration whose email and license are both new resolves
\* the club of the longest matching prefix, first-encountered on ties, and
\* when no prefix matches fails with the unmapped-license error; a
\* registration whose email or license is already registered fails with the
\* duplicate error whether or not a prefix matches; neither failure creates a
\* user.
C9_LongestPrefixClub ==
    [][last'.op = "register" =>
           IF Taken(last')
           THEN last'.outcome = "Email oder Lizenznummer existiert bereits." /\ users' = users
           ELSE IF Matching(licenseMap, Strip(last'.text)) = {}
           THEN last'.outcome = "Lizenznummer nicht bekannt" /\ users' = users
           ELSE last'.outcome = "Registrierung erfolgreich." /\ Registered(last')]_vars

\* A license that two mappings of different clubs match with prefixes of the
\* same length has just been registered.
C9_Witness ==
    /\ last.op = "register"
    /\ last.outcome = "Registrierung erfolgreich."
    /\ \E i, j \in Matching(licenseMap, Strip(last.text)) :
           /\ i < j
           /\ licenseMap[i].license_prefix = licenseMap[j].license_prefix
           /\ licenseMap[i].club_id # licenseMap[j].club_id

-----------------------------------------------------------------------------
(* Claims about the roster, checked under SpecJoin and SpecRoster *)

PairRows(b, user_id, team_id) ==
    BagCardinality(DeleteWhere(b, LAMBDA r : ~(r.user = user_id /\ r.team = team_id)))

\* C11: there is never more than one TeamMembership row per (user, team) pair,
\* also when two requestJoin calls of one actor for one team interleave; and a
\* requestJoin that finds a row for (actor, team), approved or not, is
\* rejected and changes nothing.
C11_OneMembershipPerPair ==
    [][/\ \A u \in UserIds, t \in TeamIds : PairRows(membership', u, t) <= 1
       /\ \A w \in Workers :
              (/\ req[w].pc = "join_select"
               /\ req'[w].pc # "join_select"
               /\ PairRows(membership, req[w].actor, req[w].team) > 0)
              => /\ req'[w].outcome = "Du hast bereits eine Anfrage / Mitgliedschaft."
                 /\ membership' = membership]_vars

\* C12: every team has an approved Membership row of its captain; no
\* requestJoin and no decide (approve or deny, by the captain or a club_admin,
\* on any user) removes or un-approves it.
C12_CaptainStaysMember ==
    \A t \in teams :
        \E r \in Rows(membership) : r.team = t.id /\ r.user = t.captain /\ r.approved = 1

-----------------------------------------------------------------------------
(* Claim about the notifier, checked under SpecNotify *)

\* C13: requestJoin, decide(approve) and createMatch succeed and write the
\* same rows whether the notifier delivers, raises or is not configured: a
\* join of a new pair adds its one unapproved row, an authorized decision is
\* answered as approved or denied and an approval leaves the target's rows
\* approved, an authorized createMatch adds the match and one date per
\* non-empty input.
C13_NotifierAbsorbed ==
    [][/\ (last'.op = "team_join" /\ PairRows(membership, last'.actor, last'.id) = 0) =>
              /\ last'.outcome = "Beitrittsanfrage gesendet."
              /\ PairRows(membership', last'.actor, last'.id) = 1
              /\ BagCardinality(membership') = BagCardinality(membership) + 1
       /\ (last'.op = "team_requests" /\ MayManageTeam(Actor(last'.actor), last'.id)) =>
              /\ last'.outcome \in {"Anfrage approved.", "Anfrage denied."}
              /\ last'.outcome = "Anfrage approved." =>
                     /\ \A r \in Rows(membership') :
                            (r.team = last'.id /\ r.user \in last'.sel) => r.approved = 1
                     /\ BagCardinality(membership') = BagCardinality(membership)
       /\ (last'.op = "match_create" /\ MayManageTeam(Actor(last'.actor), last'.id)) =>
              /\ last'.outcome = "Match erstellt."
              /\ \E m \in matches' \ matches : m.id = last'.n /\ m.team = last'.id
              /\ Cardinality({d \in matchDates' : d.match = last'.n}) = Len(last'.dates)]_vars

\* A match with a date has just been created for a team with two approved
\* members and nobody was notified.
C13_Witness ==
    /\ last.op = "match_create"
    /\ last.outcome = "Match erstellt."
    /\ last.dates # <<>>
    /\ Cardinality(ApprovedMembers(last.id)) >= 2
    /\ mail = {}

-----------------------------------------------------------------------------
(* Claim about the cascades as other actors see them, checked under SpecCascade *)

\* C14: a deleteMatch or deleteTeam is atomic to other actors: in no state,
\* during the request or after it has failed between two steps, have rows of
\* the match been removed while its Match row is present, or rows of the team
\* while its Team row is present.
C14_CascadeAtomic ==
    \A w \in Workers :
        (req[w].pc \in {"run", "done"} /\ req[w].removed > 0) =>
            /\ req[w].op = "match_delete" => ~\E m \in matches : m.id = req[w].id
            /\ req[w].op = "team_delete" => ~\E t \in teams : t.id = req[w].id

\* C15: no orphan rows after any deletion.  Once no request is in flight,
\* every message, task and lineup row names an existing match, every
\* availability row an existing match date, every match date an existing
\* match, every match an existing team and every membership row an existing
\* team, also when a writer had passed its gate before the deletion finished.
Quiet == \A w \in Workers : req[w].pc \in {"idle", "done"}

C15_NoOrphans ==
    Quiet =>
        /\ \A r \in Rows(messages) \cup Rows(tasks) \cup Rows(lineup) :
               \E m \in matches : m.id = r.match
        /\ \A r \in Rows(availability) : \E d \in matchDates : d.id = r.match_date
        /\ \A d \in matchDates : \E m \in matches : m.id = d.match
        /\ \A m \in matches : \E t \in teams : t.id = m.team
        /\ \A r \in Rows(membership) : \E t \in teams : t.id = r.team

\* C16: replace operations are atomic to readers.  While an editMatch, a
\* setLineup or a submitAvailability request is between two statements the
\* store shows the complete old or the complete new set of what it replaces,
\* and never the new dates of a match whose status is still confirmed.
ProposedOf(match_id) == {d.proposed_datetime : d \in {x \in matchDates : x.match = match_id}}

LineupOf(match_id) == {r.user : r \in {x \in Rows(lineup) : x.match = match_id}}

AvailableOf(user_id, match_id) ==
    {r.match_date : r \in {x \in Rows(availability) :
         x.user = user_id /\ AvailabilityOfMatch(matchDates, match_id, x)}}

C16_ReplaceAtomic ==
    \A w \in Workers :
        req[w].pc = "run" =>
            /\ req[w].op = "match_edit" =>
                   /\ ProposedOf(req[w].id) \in {req[w].old, req[w].new}
                   /\ ProposedOf(req[w].id) = req[w].new =>
                          \A m \in matches : m.id = req[w].id => m.status # "confirmed"
            /\ req[w].op = "match_set_lineup" =>
                   LineupOf(req[w].id) \in {req[w].old, req[w].new}
            /\ req[w].op = "match_availability" =>
                   AvailableOf(req[w].actor, req[w].id) \in {req[w].old, req[w].new}

\* C17: stale availability never survives a reschedule.  Once an editMatch
\* with new dates has finished and no request is in flight, every
\* availability row names one of the match dates that exist, also when a
\* submitAvailability had selected the old date ids before the edit ran.
EditFinished ==
    \E w \in Workers :
        req[w].pc = "done" /\ req[w].op = "match_edit" /\ req[w].todo = <<>> /\ req[w].new # {}

C17_NoStaleAvailability ==
    (Quiet /\ EditFinished) =>
        \A r \in Rows(availability) : \E d \in matchDates : d.id = r.match_date

\* C18: createTeam is atomic.  In every state another actor can read, a
\* Team row and its captain's approved Membership row exist both or neither:
\* every team has the approved membership of its captain and every
\* membership row names an existing team.
C18_CreateAtomic ==
    /\ \A t \in teams :
           \E r \in Rows(membership) : r.user = t.captain /\ r.team = t.id /\ r.approved = 1
    /\ \A r \in Rows(membership) : \E t \in teams : t.id = r.team

\* C19: a MatchTask is never reassigned.  A claimTask that looks for the
\* pair's row once a row exists is answered 'already claimed' and changes
\* nothing, whoever sends it, and every task row stays as it is, claimant
\* included, in every step that leaves its match in place.
Claimants(match_id, task) ==
    {r.user : r \in {x \in Rows(tasks) : x.match = match_id /\ x.task = task}}

C20_TaskNamesFixed == \A r \in Rows(tasks) : r.task \in TaskNames

-----------------------------------------------------------------------------
(* Claims about what a refusal tells, about the lineup and about date ids *)

\* C21: a player who does not pass the operation's gate (not the team's
\* captain, not a club_admin, not an approved member where membership is
\* the gate) gets the same outcome, Unauthorized, from every gated operation whether
\* the target team or match does not exist or exists and belongs to someone
\* else; confirmDate and setLineup included.
C21_DenialHidesExistence ==
    [][(FailsGate(last') /\ Actor(last'.actor).role = "player") =>
           last'.outcome = "Unauthorized"]_vars

\* C22: setLineup by the captain or a club_admin replaces the whole lineup.
\* Afterwards the match's lineup holds exactly one entry per distinct id of
\* playerIds, each with confirmed = false, also for players who had
\* confirmed before, and the lineup rows of every other match are as they were.
C22_LineupReplaced ==
    [][last'.op = "match_set_lineup" =>
           /\ MayManageMatch(Actor(last'.actor), last'.id) <=>
                  last'.outcome = "Lineup gespeichert."
           /\ last'.outcome = "Lineup gespeichert." =>
                  /\ {r \in Rows(lineup') : r.match = last'.id} =
                         {[match |-> last'.id, user |-> uid, confirmed |-> 0] : uid \in last'.sel}
                  /\ \A r \in Rows(lineup') : r.match = last'.id => lineup'[r] = 1
                  /\ \A r \in Rows(lineup) \cup Rows(lineup') :
                         r.match # last'.id =>
                             /\ r \in Rows(lineup) /\ r \in Rows(lineup')
                             /\ lineup'[r] = lineup[r]]_vars

\* A lineup has just been set for one match while the other match holds a
\* confirmed entry of a player the new lineup names.
C22_Witness ==
    /\ last.op = "match_set_lineup" /\ last.outcome = "Lineup gespeichert."
    /\ last.sel = {Captain.id, Player.id}
    /\ \E r \in Rows(lineup) : r.match # last.id /\ r.confirmed = 1 /\ r.user \in last.sel

\* C23: respondToLineup by an actor without a LineupEntry for (match, actor)
\* yields Unauthorized and changes nothing; with an entry, accept sets only
\* that entry's confirmed flag and decline deletes only that entry; the
\* entries of every other player and of every other match stay as they were.
OwnEntries(lu, l) == {r \in Rows(lu) : r.match = l.id /\ r.user = l.actor}

C23_OnlyOwnEntry ==
    [][last'.op = "match_confirm_lineup" =>
           /\ OwnEntries(lineup, last') = {} <=> last'.outcome = "Unauthorized"
           /\ last'.outcome = "Unauthorized" => store' = store
           /\ last'.outcome = "Teilnahme bestaetigt." =>
                  OwnEntries(lineup', last') =
                      {[match |-> last'.id, user |-> last'.actor, confirmed |-> 1]}
           /\ last'.outcome = "Du kannst nicht spielen." => OwnEntries(lineup', last') = {}
           /\ \A r \in (Rows(lineup) \cup Rows(lineup')) \
                       (OwnEntries(lineup, last') \cup OwnEntries(lineup', last')) :
                  r \in Rows(lineup) /\ r \in Rows(lineup') /\ lineup'[r] = lineup[r]
           /\ UNCHANGED <<users, licenseMap, teams, membership, matches, matchDates,
                          availability, tasks, messages>>]_vars

\* A player has just declined while the captain's confirmed entry of the
\* same match and an entry of the other match are in place.
C23_Witness ==
    /\ last.op = "match_confirm_lineup" /\ last.outcome = "Du kannst nicht spielen."
    /\ \E r \in Rows(lineup) : r.match = last.id /\ r.user # last.actor /\ r.confirmed = 1
    /\ \E r \in Rows(lineup) : r.match # last.id /\ r.user = last.actor

\* C24: confirmDate by the captain or a club_admin with a dateId that names
\* no MatchDate of the target match (no such id, or a date of another match)
\* returns the 'invalid date' error and leaves every match's status and
\* final_date as they were.
C24_InvalidDateRefused ==
    [][(last'.op = "match_confirm_date" /\ MayManageMatch(Actor(last'.actor), last'.id)) =>
           /\ (~\E d \in matchDates : d.id \in last'.sel /\ d.match = last'.id) <=>
                  last'.outcome = "Invalid date"
           /\ last'.outcome = "Invalid date" => matches' = matches]_vars

\* The date of the other match has just been refused for a match that was
\* confirmed before.
C24_Witness ==
    /\ last.op = "match_confirm_date" /\ last.outcome = "Invalid date"
    /\ \E d \in matchDates : d.id \in last.sel /\ d.match # last.id
    /\ \E m \in matches : m.id = last.id /\ m.status = "confirmed"

\* C25: submitAvailability for match M only touches Availability rows of M.
\* Every row it adds names a MatchDate of M, and the rows on dates of any
\* other match are as they were, whatever date ids the actor submits.
C25_AvailabilityStaysInMatch ==
    [][(last'.op = "match_availability" /\ last'.outcome = "Verfuegbarkeit gespeichert.") =>
           \A r \in Rows(availability) \cup Rows(availability') :
               LET before == IF r \in Rows(availability) THEN availability[r] ELSE 0
                   after == IF r \in Rows(availability') THEN availability'[r] ELSE 0
               IN  /\ after > before =>
                       \E d \in matchDates : d.id = r.match_date /\ d.match = last'.id
                   /\ (\E d \in matchDates : d.id = r.match_date /\ d.match # last'.id) =>
                       after = before]_vars

-----------------------------------------------------------------------------
(* Claims about requests that interleave between the read and the write *)

\* C26: a match with status = confirmed has a final_date equal to the value
\* of some MatchDate row that belongs to the match now, also when a
\* confirmDate and an editMatch that reschedules the same match interleave;
\* stated for the states in which no request is between two statements.
C26_FinalDateIsProposed ==
    Quiet =>
        \A m \in matches :
            m.status = "confirmed" =>
                \E d \in matchDates : d.match = m.id /\ d.proposed_datetime = m.final_date

\* C27: every MatchDate row inserted by a createMatch call belongs to the
\* Match row inserted by that same call, also when two createMatch calls
\* with the same (team, opponent, location) interleave.
C27_DatesOfOwnMatch ==
    \A w \in Workers :
        req[w].pc \in {"mc_dates", "done"} =>
            \A d \in matchDates : d.id \in req[w].made => d.match = req[w].inserted

====
